---- MODULE Spec2Model ----
(***************************************************************************)
(* A model of the dyndis multiple-dispatch library: type keys and their    *)
(* specificity order, the TopologicalSet of candidates, the per-query      *)
(* CachedSearch and the MultiDispatch registration and call operations.    *)
(***************************************************************************)
EXTENDS Integers, Sequences, FiniteSets, TLC

VARIABLES
    cands,      \* arena of TopologicalNode.inner: node id i holds cands[i]
    topsets,    \* MultiDispatch.candidate_topsets: arity -> [exists, rootgt, len]
    gt,         \* TopologicalNode.gt of every node, a SortedSet keyed by priority
    lt,         \* TopologicalNode.lt of every node (0 stands for the root)
    cache,      \* MultiDispatch.cache: arity -> [present, ent: query -> CachedSearch]
    last,       \* the operation performed last and what it observed
    pool,       \* the name of the pool the environment registers and calls from
    m,          \* the input and the result of a single Candidate.match
    registered, \* the <<class, abstract class>> pairs of ABCMeta.register
    pcs,        \* what the last potential_conflicts() returned or raised
    iters,      \* the open iterators candidates_for_types has returned
    trie,       \* a Trie: [cls, nodes: path -> [inner_value, children], len]
    ctrl        \* the dict the trie is run against: key -> value

vars == <<cands, topsets, gt, lt, cache, last, pool, m, registered, pcs, iters, trie, ctrl>>

\* no trie has been constructed
NoTrie == [cls |-> "none", nodes |-> <<>>, len |-> 0]

----------------------------------------------------------------------------
(* Bounds *)

MaxCands == 4       \* candidates registered in one dispatcher
MaxCached == 1      \* cache entries alive at the same time
MaxBatch == 2       \* candidates handed to one add_candidates call

----------------------------------------------------------------------------
(* The class hierarchy the runtime types come from.  O is object;          *)
(* C and E both derive from A and B; D derives from A only; P is an        *)
(* abstract base class and Q a plain class, both deriving from O only;     *)
(* NoneType is the class of None.                                          *)

Types == {"O", "A", "B", "C", "D", "E", "P", "Q", "NoneType"}

Mro ==
    [t \in Types |->
        CASE t = "O" -> {"O"}
          [] t = "A" -> {"A", "O"}
          [] t = "B" -> {"B", "O"}
          [] t = "C" -> {"C", "A", "B", "O"}
          [] t = "D" -> {"D", "A", "O"}
          [] t = "E" -> {"E", "A", "B", "O"}
          [] t = "P" -> {"P", "O"}
          [] t = "Q" -> {"Q", "O"}
          [] t = "NoneType" -> {"NoneType", "O"}]

\* a class is a subclass of its bases and of the abstract classes a base of
\* it has been registered with; util.Bottom is a subclass of every class
issubclass(c, s) ==
    \/ c = "Bottom"
    \/ s \in Mro[c]
    \/ \E r \in registered : r[1] \in Mro[c] /\ s \in Mro[r[2]] \ {"O"}

----------------------------------------------------------------------------
(* Sequence helpers *)

Range(s) == {s[i] : i \in DOMAIN s}

RECURSIVE Reverse(_)
Reverse(s) == IF s = <<>> THEN <<>> ELSE Append(Reverse(Tail(s)), Head(s))


RECURSIVE RemoveAll(_, _)
RemoveAll(s, S) ==
    IF s = <<>> THEN <<>>
    ELSE IF Head(s) \in S THEN RemoveAll(Tail(s), S)
         ELSE <<Head(s)>> \o RemoveAll(Tail(s), S)

----------------------------------------------------------------------------
(* Type keys: <<"class", t>>, <<"any", "Any">>, <<"tv", name>>.            *)

ClassKey(t) == <<"class", t>>
AnyKey == <<"any", "Any">>
TypeVarKey(v) == <<"tv", v>>

TypeVars == {"T", "Y", "U", "V"}

\* TypeVar.__constraints__ of the type variables used
Constraints ==
    [v \in TypeVars |->
        CASE v = "T" -> <<>>
          [] v = "Y" -> <<>>
          [] v = "U" -> <<"A", "B">>
          [] v = "V" -> <<"A", "B", "C">>]

----------------------------------------------------------------------------
(* CoreTypeKey.__le__ / __lt__.  A comparison that Python leaves           *)
(* NotImplemented is FALSE here: the two keys are not ordered.  A raw      *)
(* class of TypeVar.__constraints__ compares as its ClassKey.              *)

RECURSIVE KeyLe(_, _), KeyLt(_, _)

KeyLe(a, b) ==
    CASE a[1] = "class" ->
            IF b[1] = "class" THEN issubclass(a[2], b[2])
            ELSE ~KeyLt(b, a)
      [] a[1] = "any" -> b = a
      [] a[1] = "tv" ->
            IF a = b THEN TRUE
            ELSE IF Constraints[a[2]] # <<>>
                 THEN \A i \in DOMAIN Constraints[a[2]] :
                          KeyLe(ClassKey(Constraints[a[2]][i]), b)
                 ELSE FALSE

KeyLt(a, b) ==
    CASE a[1] = "class" ->
            IF b[1] = "class" THEN a[2] # b[2] /\ issubclass(a[2], b[2])
            ELSE ~KeyLe(b, a)
      [] a[1] = "any" -> FALSE
      [] a[1] = "tv" ->
            IF a = b THEN FALSE
            ELSE IF Constraints[a[2]] # <<>>
                 THEN \A i \in DOMAIN Constraints[a[2]] :
                          KeyLt(ClassKey(Constraints[a[2]][i]), b)
                 ELSE FALSE

----------------------------------------------------------------------------
(* Matching one parameter *)

\* MatchKind: the larger, the more upcast
Worse(r1, r2) == IF r1 = "upcast" \/ r2 = "upcast" THEN "upcast" ELSE "perfect"

ClassKeyMatch(t, q) ==
    IF q = t THEN "perfect"
    ELSE IF issubclass(q, t) THEN "upcast"
    ELSE "none"

AnyKeyMatch(q) == "upcast"

\* a variant in which a bound variable accepts any type
TypeVarKeyMatchAny(v, q, defined_type_var) == "upcast"

\* a TypeVarKey whose variable is bound matches as the ClassKey it is bound to
TypeVarKeyMatch(v, q, defined_type_var) == ClassKeyMatch(defined_type_var[v], q)

\* a variant of constrain_type that takes the first constraint cls can be
\* up-cast to, minimal or not
constrain_type_first(cls, v) ==
    IF Constraints[v] # <<>>
    THEN LET candidates == SelectSeq(Constraints[v], LAMBDA c : issubclass(cls, c))
         IN  IF candidates = <<>> THEN "None" ELSE candidates[1]
    ELSE cls

\* the lowest constraint of type variable v that cls can be up-cast to:
\* a class, "None", or "AmbiguousBindingError"
constrain_type(cls, v) ==
    IF Constraints[v] # <<>>
    THEN LET candidates == SelectSeq(Constraints[v], LAMBDA c : issubclass(cls, c))
             minimal_candidates ==
                 SelectSeq(candidates,
                           LAMBDA cand : \A i \in DOMAIN candidates :
                                             issubclass(cand, candidates[i]))
         IN  IF candidates = <<>> THEN "None"
             ELSE IF Len(minimal_candidates) # 1 THEN "AmbiguousBindingError"
             ELSE minimal_candidates[1]
    ELSE cls

NoBindings == [v \in TypeVars |-> "unbound"]

\* one position of Candidate.match: the rank and the bindings after it
KeyMatch(key, q, b) ==
    CASE key[1] = "class" -> [rank |-> ClassKeyMatch(key[2], q), bind |-> b]
      [] key[1] = "any" -> [rank |-> AnyKeyMatch(q), bind |-> b]
      [] key[1] = "tv" ->
            IF b[key[2]] # "unbound"
            THEN [rank |-> TypeVarKeyMatch(key[2], q, b), bind |-> b]
            ELSE LET ct == constrain_type(q, key[2])
                 IN  CASE ct = "None" -> [rank |-> "none", bind |-> b]
                       [] ct = "AmbiguousBindingError" -> [rank |-> "error", bind |-> b]
                       [] OTHER ->
                            [rank |-> IF ct = q THEN "perfect" ELSE "upcast",
                             bind |-> [b EXCEPT ![key[2]] = ct]]

\* Candidate.match: left to right, one shared binding map, the worst rank;
\* "none" and "error" end the match at the position that reports them
RECURSIVE MatchFrom(_, _, _, _, _)
MatchFrom(types, query, i, rank, b) ==
    IF i > Len(types) THEN [rank |-> rank, bind |-> b]
    ELSE LET r == KeyMatch(types[i], query[i], b)
         IN  IF r.rank \in {"none", "error"} THEN r
             ELSE MatchFrom(types, query, i + 1, Worse(rank, r.rank), r.bind)

CandidateMatch(cand, query) == MatchFrom(cand.types, query, 1, "perfect", NoBindings)

\* the truth value CachedSearch.advance tests
Matches(cand, query) == CandidateMatch(cand, query).rank \in {"perfect", "upcast"}

----------------------------------------------------------------------------
(* The order on candidates the TopologicalSet is built on *)

\* a supersedes b: at least as specific at every position, strictly at one
CandLt(a, b) ==
    /\ \A i \in DOMAIN a.types : KeyLe(a.types[i], b.types[i])
    /\ \E i \in DOMAIN a.types : KeyLt(a.types[i], b.types[i])

CandLe(a, b) ==
    /\ a.priority = b.priority
    /\ \A i \in DOMAIN a.types : KeyLe(a.types[i], b.types[i])

CandGe(a, b) == CandLe(b, a)

----------------------------------------------------------------------------
(* TopologicalSet.  A dispatcher state S is a record                       *)
(*   [cands, topsets, gt, lt, cache];                                      *)
(* node i of the arena holds S.cands[i], node 0 is the root of the arity.  *)

Arities == {1, 2}

Arity(c) == Len(c.types)

NodeGt(S, n, p) == IF p = 0 THEN S.topsets[n].rootgt ELSE S.gt[p]

\* SortedSet.add under key = priority: after the elements whose key is not larger
SortedAdd(s, x, prio) ==
    IF x \in Range(s) THEN s
    ELSE LET k == Cardinality({i \in DOMAIN s : prio[s[i]] <= prio[x]})
         IN  SubSeq(s, 1, k) \o <<x>> \o SubSeq(s, k + 1, Len(s))

RECURSIVE SortedAddAll(_, _, _)
SortedAddAll(s, xs, prio) ==
    IF xs = <<>> THEN s
    ELSE SortedAddAll(SortedAdd(s, Head(xs), prio), Tail(xs), prio)

\* the nodes that ever enter potential_parents while x is added
RECURSIVE PotentialParents(_, _, _, _)
PotentialParents(S, n, x, seen) ==
    LET more == {k \in UNION {Range(NodeGt(S, n, p)) : p \in seen} :
                    CandLt(S.cands[k], x)}
    IN  IF more \subseteq seen THEN seen
        ELSE PotentialParents(S, n, x, seen \cup more)

\* the children of p that go to direct_children, in the order p.gt is iterated
ChildrenAbove(S, n, x, p) ==
    SelectSeq(NodeGt(S, n, p),
              LAMBDA k : ~CandLt(S.cands[k], x) /\ CandLt(x, S.cands[k]))

\* potential_parents is a set and pop() takes any member of it: every list
\* direct_children can end up as
RECURSIVE DirectChildrenLists(_, _, _, _, _)
DirectChildrenLists(S, n, x, pending, dcs) ==
    IF pending = {} THEN {dcs}
    ELSE UNION {
            DirectChildrenLists(
                S, n, x,
                (pending \ {pp}) \cup
                    {k \in Range(NodeGt(S, n, pp)) : CandLt(S.cands[k], x)},
                dcs \o ChildrenAbove(S, n, x, pp))
            : pp \in pending }

\* a variant of the equivalence test that looks at the children of the root
\* only, as if the loop of add did not descend
EquivalentAtRoot(S, n, x) ==
    \E k \in Range(NodeGt(S, n, 0)) :
        CandLe(x, S.cands[k]) /\ CandGe(S.cands[k], x)

\* the third branch of the loop of add: an equivalent element is in the set
Equivalent(S, n, x) ==
    \E p \in PotentialParents(S, n, x, {0}) :
        \E k \in Range(NodeGt(S, n, p)) :
            /\ ~CandLt(S.cands[k], x)
            /\ ~CandLt(x, S.cands[k])
            /\ CandLe(x, S.cands[k])
            /\ CandGe(S.cands[k], x)

DirectParents(S, n, x) ==
    {p \in PotentialParents(S, n, x, {0}) :
        ~\E k \in Range(NodeGt(S, n, p)) : CandLt(S.cands[k], x)}

\* a variant of the rewiring in which a direct child keeps the parents the
\* new node supplants
RewireKeepParents(S, n, x, direct_children) ==
    LET node == Len(S.cands) + 1
        newcands == Append(S.cands, x)
        prio == [i \in DOMAIN newcands |-> newcands[i].priority]
        DP == DirectParents(S, n, x)
        DC == Range(direct_children)
        Supplanted(dc) == S.lt[dc] \cap DP
        NewGt(p) ==
            IF p \in DP
            THEN RemoveAll(SortedAdd(NodeGt(S, n, p), node, prio),
                           {dc \in DC : p \in Supplanted(dc)})
            ELSE NodeGt(S, n, p)
    IN  [S EXCEPT
            !.cands = newcands,
            !.topsets = [S.topsets EXCEPT ![n].rootgt = NewGt(0)],
            !.gt = [i \in DOMAIN newcands |->
                       IF i = node THEN SortedAddAll(<<>>, direct_children, prio)
                       ELSE IF Arity(S.cands[i]) = n THEN NewGt(i)
                       ELSE S.gt[i]],
            !.lt = [i \in DOMAIN newcands |->
                       IF i = node THEN DP
                       ELSE IF i \in DC THEN S.lt[i] \cup {node}
                       ELSE S.lt[i]]]

\* the rewiring at the end of add, for one list of direct children
Rewire(S, n, x, direct_children) ==
    LET node == Len(S.cands) + 1
        newcands == Append(S.cands, x)
        prio == [i \in DOMAIN newcands |-> newcands[i].priority]
        DP == DirectParents(S, n, x)
        DC == Range(direct_children)
        Supplanted(dc) == S.lt[dc] \cap DP
        NewGt(p) ==
            IF p \in DP
            THEN RemoveAll(SortedAdd(NodeGt(S, n, p), node, prio),
                           {dc \in DC : p \in Supplanted(dc)})
            ELSE NodeGt(S, n, p)
    IN  [S EXCEPT
            !.cands = newcands,
            !.topsets = [S.topsets EXCEPT ![n].rootgt = NewGt(0)],
            !.gt = [i \in DOMAIN newcands |->
                       IF i = node THEN SortedAddAll(<<>>, direct_children, prio)
                       ELSE IF Arity(S.cands[i]) = n THEN NewGt(i)
                       ELSE S.gt[i]],
            !.lt = [i \in DOMAIN newcands |->
                       IF i = node THEN DP
                       ELSE IF i \in DC THEN (S.lt[i] \ Supplanted(i)) \cup {node}
                       ELSE S.lt[i]]]

\* TopologicalSet.add: the states it can leave and the value it returns
TopologicalSetAdd(S, n, x) ==
    IF Equivalent(S, n, x) THEN {[ok |-> FALSE, S |-> S]}
    ELSE {[ok |-> TRUE, S |-> Rewire(S, n, x, dcs)] :
             dcs \in DirectChildrenLists(S, n, x, {0}, <<>>)}

----------------------------------------------------------------------------
(* TopologicalSet.layers, a generator: pc is "start" before the first      *)
(* next(), "run" while suspended at the yield, "done" once it has ended.   *)

EmptyMap == [i \in {} |-> {}]

NewLayers == [pc |-> "start", np |-> <<>>, waiting |-> EmptyMap]

\* the (k, child) pairs in the order the two nested loops visit them
RECURSIVE ChildPairs(_, _, _)
ChildPairs(S, n, no_prev) ==
    IF no_prev = <<>> THEN <<>>
    ELSE LET k == Head(no_prev)
             kids == NodeGt(S, n, k)
         IN  [i \in DOMAIN kids |-> <<k, kids[i]>>] \o ChildPairs(S, n, Tail(no_prev))

\* the body of the inner loop, over all pairs
RECURSIVE Release(_, _, _, _)
Release(S, pairs, waiting, new_np) ==
    IF pairs = <<>> THEN [err |-> FALSE, waiting |-> waiting, np |-> new_np]
    ELSE LET k == Head(pairs)[1]
             child == Head(pairs)[2]
             child_deps == IF child \in DOMAIN waiting THEN waiting[child]
                           ELSE S.lt[child]
             left == child_deps \ {k}
         IN  IF k \notin child_deps
             THEN [err |-> TRUE, waiting |-> waiting, np |-> new_np]
             ELSE IF left = {}
                  THEN Release(S, Tail(pairs),
                               [j \in DOMAIN waiting \ {child} |-> waiting[j]],
                               Append(new_np, child))
                  ELSE Release(S, Tail(pairs),
                               [j \in DOMAIN waiting \cup {child} |->
                                   IF j = child THEN left ELSE waiting[j]],
                               new_np)

\* next() on the generator
LayersNext(S, n, g) ==
    LET no_prev == IF g.pc = "start" THEN S.topsets[n].rootgt ELSE g.np
        Done == [pc |-> "done", np |-> <<>>, waiting |-> EmptyMap]
    IN  IF g.pc = "done" THEN [kind |-> "stop", layer |-> <<>>, gen |-> g]
        ELSE IF no_prev = <<>>
        THEN [kind |-> IF DOMAIN g.waiting = {} THEN "stop" ELSE "AssertionError",
              layer |-> <<>>, gen |-> Done]
        ELSE LET r == Release(S, ChildPairs(S, n, no_prev), g.waiting, <<>>)
             IN  IF r.err THEN [kind |-> "KeyError", layer |-> <<>>, gen |-> Done]
                 ELSE [kind |-> "layer", layer |-> no_prev,
                       gen |-> [pc |-> "run", np |-> r.np, waiting |-> r.waiting]]

----------------------------------------------------------------------------
(* CachedSearch: layer_iter is the layers generator, behind the layers     *)
(* chained back in front of it (pushed); live is "layer_iter is not None". *)

NewCachedSearch == [pushed |-> <<>>, gen |-> NewLayers, live |-> TRUE, sorted |-> <<>>]

\* the matching candidates of a layer, in runs of equal priority
RECURSIVE Groups(_, _, _, _)
Groups(S, layer, query, ret) ==
    IF layer = <<>> THEN ret
    ELSE LET cand == Head(layer)
         IN  IF ~Matches(S.cands[cand], query) THEN Groups(S, Tail(layer), query, ret)
             ELSE IF ret = <<>>
                     \/ S.cands[ret[Len(ret)][1]].priority # S.cands[cand].priority
                  THEN Groups(S, Tail(layer), query, Append(ret, <<cand>>))
                  ELSE Groups(S, Tail(layer), query,
                              [ret EXCEPT ![Len(ret)] = Append(@, cand)])

\* a variant of the materialization that records nothing
ExtendNothing(sorted, ret) == sorted

\* a variant of the materialization that puts the new groups in front
ExtendFront(sorted, ret) == Reverse(ret) \o sorted

\* self.sorted.extend(reversed(ret))
Extend(sorted, ret) == sorted \o Reverse(ret)

\* a variant that reads the layers generator only, as if no layer were ever
\* chained back in front of it
NextLayerNoChain(S, n, e) == LayersNext(S, n, e.gen)

\* next(self.layer_iter, None): the layers chained back come first
NextLayer(S, n, e) ==
    IF e.pushed # <<>>
    THEN [kind |-> "layer", layer |-> Head(e.pushed), gen |-> e.gen]
    ELSE LayersNext(S, n, e.gen)

\* the body of advance() once next() has given nx
AdvanceOn(S, e, query, nx) ==
    LET e1 == [e EXCEPT !.pushed = IF e.pushed # <<>> THEN Tail(e.pushed) ELSE <<>>,
                        !.gen = nx.gen]
    IN  CASE nx.kind = "stop" ->
                [kind |-> "end", yield |-> <<>>, e |-> [e1 EXCEPT !.live = FALSE]]
          [] nx.kind \in {"AssertionError", "KeyError"} ->
                [kind |-> nx.kind, yield |-> <<>>, e |-> e1]
          [] OTHER ->
                IF \E i \in DOMAIN nx.layer :
                       CandidateMatch(S.cands[nx.layer[i]], query).rank = "error"
                THEN [kind |-> "AmbiguousBindingError", yield |-> <<>>,
                      e |-> [e1 EXCEPT !.pushed = <<nx.layer>> \o e1.pushed]]
                ELSE LET ret == Groups(S, nx.layer, query, <<>>)
                     IN  [kind |-> "layer", yield |-> Reverse(ret),
                          e |-> [e1 EXCEPT !.sorted = Extend(e1.sorted, ret)]]

\* one run of advance(): what it raises or yields, and the CachedSearch it leaves
Advance(S, n, e, query) == AdvanceOn(S, e, query, NextLayer(S, n, e))

----------------------------------------------------------------------------
(* Return values: base wrapped in RawReturnValue wraps times *)

NotImplemented == [wraps |-> 0, base |-> "NotImplemented"]
RawReturnValue(x) == [x EXCEPT !.wraps = @ + 1]
RawNotImplemented == RawReturnValue(NotImplemented)
Value(b) == [wraps |-> 0, base |-> b]
None == Value("None")
EMPTY == Value("EMPTY")

\* a variant of unwrap that strips every wrapper
unwrapAll(x) == [x EXCEPT !.wraps = 0]

unwrap(x) == IF x.wraps > 0 THEN [x EXCEPT !.wraps = @ - 1] ELSE x

----------------------------------------------------------------------------
(* MultiDispatch.get *)

NoGroup == <<>>

\* the loop body of get over the groups yielded so far: done tells whether
\* the call has ended
RECURSIVE TryGroups(_, _, _)
TryGroups(S, groups, log) ==
    IF groups = <<>>
    THEN [done |-> FALSE, kind |-> "continue", value |-> NotImplemented,
          group |-> NoGroup, log |-> log]
    ELSE LET layer == Head(groups)
         IN  IF Len(layer) # 1
             THEN [done |-> TRUE, kind |-> "AmbiguityError", value |-> NotImplemented,
                   group |-> layer, log |-> log]
             ELSE LET c == layer[1]
                      ret == S.cands[c].func
                  IN  IF ret # NotImplemented
                      THEN [done |-> TRUE, kind |-> "return", value |-> unwrap(ret),
                            group |-> NoGroup, log |-> Append(log, c)]
                      ELSE TryGroups(S, Tail(groups), Append(log, c))

RECURSIVE Walk(_, _, _, _, _, _), WalkOn(_, _, _, _, _, _), WalkTried(_, _, _, _, _, _)

\* the loop of get over the groups t that advance() a has yielded
WalkTried(S, n, query, default, a, t) ==
    IF t.done
    THEN [kind |-> t.kind, value |-> t.value, group |-> t.group, log |-> t.log, e |-> a.e]
    ELSE Walk(S, n, a.e, query, t.log, default)

\* one round of the while loop of __iter__, advance() having ended as a
WalkOn(S, n, query, log, default, a) ==
    CASE a.kind = "end" ->
            [kind |-> "default", value |-> default, group |-> NoGroup,
             log |-> log, e |-> a.e]
      [] a.kind \in {"AssertionError", "KeyError", "AmbiguousBindingError"} ->
            [kind |-> a.kind, value |-> NotImplemented, group |-> NoGroup,
             log |-> log, e |-> a.e]
      [] OTHER -> WalkTried(S, n, query, default, a, TryGroups(S, a.yield, log))

\* CachedSearch.__iter__ past the materialized prefix, driven by get
Walk(S, n, e, query, log, default) ==
    IF ~e.live
    THEN [kind |-> "default", value |-> default, group |-> NoGroup, log |-> log, e |-> e]
    ELSE WalkOn(S, n, query, log, default, Advance(S, n, e, query))

\* the loop of get over the materialized groups, t being how it ended
IterateOn(S, n, e, query, default, t) ==
    IF t.done
    THEN [kind |-> t.kind, value |-> t.value, group |-> t.group, log |-> t.log, e |-> e]
    ELSE Walk(S, n, e, query, t.log, default)

\* a variant of the iteration that goes over the materialized prefix twice
IterateTwice(S, n, e, query, default) ==
    IterateOn(S, n, e, query, default, TryGroups(S, e.sorted \o e.sorted, <<>>))

\* iterating a CachedSearch from its start, as get does
Iterate(S, n, e, query, default) ==
    IterateOn(S, n, e, query, default, TryGroups(S, e.sorted, <<>>))

----------------------------------------------------------------------------
(* MultiDispatch: registration *)

NoCache == [present |-> FALSE, ent |-> EmptyMap]

\* a variant of _clean_cache that drops the cache of every arity
CleanCacheAll(S, sizes) == [S EXCEPT !.cache = [n \in Arities |-> NoCache]]

\* _clean_cache
CleanCache(S, sizes) ==
    [S EXCEPT !.cache = [n \in Arities |-> IF n \in sizes THEN NoCache ELSE S.cache[n]]]

\* _add_candidate: ok = FALSE stands for the ValueError
AddCandidateOp(S, candidate, clean_cache) ==
    LET n == Arity(candidate)
        S1 == [S EXCEPT !.topsets[n].exists = TRUE]
    IN  {IF r.ok
         THEN [ok |-> TRUE,
               S |-> IF clean_cache THEN CleanCache(r.S, {n}) ELSE r.S]
         ELSE [ok |-> FALSE, S |-> S1]
         : r \in TopologicalSetAdd(S1, n, candidate)}

\* add_candidates: the loop, then the one _clean_cache at its end
RECURSIVE AddCandidatesLoop(_, _, _)
AddCandidatesLoop(S, candidates, clean_sizes) ==
    IF candidates = <<>> THEN {[ok |-> TRUE, S |-> CleanCache(S, clean_sizes)]}
    ELSE UNION {
            IF r.ok
            THEN AddCandidatesLoop(r.S, Tail(candidates),
                                   clean_sizes \cup {Arity(Head(candidates))})
            ELSE {r}
            : r \in AddCandidateOp(S, Head(candidates), FALSE)}

AddCandidatesOp(S, candidates) == AddCandidatesLoop(S, candidates, {})

----------------------------------------------------------------------------
(* MultiDispatch: calls *)

\* _yield_layers: found = FALSE stands for the KeyError of CachedSearch.__init__
YieldLayers(S, types) ==
    LET n == Len(types)
        sub == S.cache[n]
        fresh == ~sub.present \/ DOMAIN sub.ent = {}
    IN  IF fresh
        THEN IF S.topsets[n].exists
             THEN [found |-> TRUE, e |-> NewCachedSearch,
                   sub |-> [present |-> TRUE, ent |-> EmptyMap]]
             ELSE [found |-> FALSE, e |-> NewCachedSearch,
                   sub |-> [present |-> TRUE, ent |-> EmptyMap]]
        ELSE IF types \in DOMAIN sub.ent
             THEN [found |-> TRUE, e |-> sub.ent[types], sub |-> sub]
             ELSE [found |-> S.topsets[n].exists, e |-> NewCachedSearch, sub |-> sub]

PutEntry(sub, types, e) ==
    [sub EXCEPT !.ent = [q \in DOMAIN sub.ent \cup {types} |->
                            IF q = types THEN e ELSE sub.ent[q]]]

\* a variant in which the call leaves a cache that holds nothing but the
\* CachedSearch it has used
GetDoneAlone(S, types, y, w) ==
    [kind |-> w.kind, value |-> w.value, group |-> w.group, log |-> w.log,
     cache |-> [n \in Arities |->
                   IF n = Len(types) THEN PutEntry(y.sub, types, w.e) ELSE NoCache]]

\* get once the loop over the CachedSearch y.e has ended as w
GetDone(S, types, y, w) ==
    [kind |-> w.kind, value |-> w.value, group |-> w.group, log |-> w.log,
     cache |-> [S.cache EXCEPT ![Len(types)] = PutEntry(y.sub, types, w.e)]]

\* get on the CachedSearch _yield_layers gives
GetOn(S, types, default, y) ==
    IF ~y.found
    THEN [kind |-> "KeyError", value |-> NotImplemented, group |-> NoGroup,
          log |-> <<>>, cache |-> [S.cache EXCEPT ![Len(types)] = y.sub]]
    ELSE GetDone(S, types, y, Iterate(S, Len(types), y.e, types, default))

\* get: what the caller observes and the cache it leaves
GetOp(S, types, default) == GetOn(S, types, default, YieldLayers(S, types))

\* __call__ once get has returned r
CallOn(r) ==
    IF r.kind = "default" THEN [r EXCEPT !.kind = "NoCandidateError"]
    ELSE r

\* __call__
CallOp(S, types) == CallOn(GetOp(S, types, EMPTY))

----------------------------------------------------------------------------
(* The environment: what is registered and what is called *)

Cand(types, priority, func) == [types |-> types, priority |-> priority, func |-> func]

K1(t) == <<ClassKey(t)>>
K2(t, u) == <<ClassKey(t), ClassKey(u)>>

\* single inheritance, one arity
TreePool ==
    [cands |-> <<Cand(K1("B"), 1, NotImplemented), Cand(K1("O"), 1, Value("o")),
                Cand(K1("D"), 0, NotImplemented), Cand(K1("A"), 0, Value("a")),
                Cand(K1("A"), 0, RawNotImplemented)>>,
     queries |-> {<<"A">>, <<"D">>, <<"A", "A">>}]

\* two parameters, two priorities
PrioPool ==
    [cands |-> <<Cand(K2("D", "O"), 0, NotImplemented), Cand(K2("O", "D"), 0, NotImplemented),
                Cand(K2("A", "O"), 1, Value("ao")), Cand(K2("O", "A"), 0, Value("oa")),
                Cand(K2("A", "O"), 0, NotImplemented)>>,
     queries |-> {<<"A", "A">>, <<"D", "D">>}]

\* multiple inheritance and a constrained type variable
DiamondPool ==
    [cands |-> <<Cand(K1("A"), 0, Value("a")), Cand(K1("B"), 0, NotImplemented),
                Cand(K1("D"), 0, NotImplemented), Cand(K1("C"), 0, NotImplemented),
                Cand(<<TypeVarKey("U")>>, 0, Value("u"))>>,
     queries |-> {<<"C">>, <<"E">>}]

\* both arities, the wildcard
MixedPool ==
    [cands |-> <<Cand(<<AnyKey>>, 0, Value("any")),
                Cand(K1("O"), 0, RawReturnValue(RawNotImplemented)),
                Cand(K1("A"), 1, RawNotImplemented), Cand(K2("A", "A"), 0, Value("aa")),
                Cand(K2("O", "A"), 0, Value("oa"))>>,
     queries |-> {<<"A">>, <<"A", "A">>}]

\* an abstract base class and a class that is registered with it later
AbcPool ==
    [cands |-> <<Cand(K1("P"), 0, Value("p")), Cand(K1("Q"), 0, NotImplemented),
                Cand(K1("O"), 0, NotImplemented), Cand(K1("P"), 1, NotImplemented)>>,
     queries |-> {<<"Q">>, <<"P">>}]

Pools == {"Tree", "Prio", "Diamond", "Mixed"}

PoolOf(name) ==
    CASE name = "Tree" -> TreePool
      [] name = "Prio" -> PrioPool
      [] name = "Diamond" -> DiamondPool
      [] name = "Mixed" -> MixedPool
      [] name = "Abc" -> AbcPool

\* the candidates of P at the positions I, in the order P lists them
RECURSIVE Pick(_, _)
Pick(P, I) ==
    IF I = {} THEN <<>>
    ELSE LET i == CHOOSE i \in I : \A j \in I : i <= j
         IN  <<P[i]>> \o Pick(P, I \ {i})

\* the batches handed to add_candidates: 2 to k candidates of P
Batches(P, k) ==
    {Pick(P, I) : I \in {J \in SUBSET DOMAIN P : Cardinality(J) \in 2..k}}

----------------------------------------------------------------------------
(* State *)

\* no PotentialConflictSet has been made
NoReport == [made |-> FALSE, exc |-> "none", amb |-> EmptyMap, err |-> EmptyMap]

S0 == [cands |-> cands, topsets |-> topsets, gt |-> gt, lt |-> lt, cache |-> cache]

NoOutcome == [kind |-> "none", value |-> NotImplemented, group |-> NoGroup, log |-> <<>>]

Observed(r) == [kind |-> r.kind, value |-> r.value, group |-> r.group, log |-> r.log]

NoMatchRun == [cand |-> Cand(<<AnyKey>>, 0, NotImplemented), query |-> <<"O">>,
               done |-> FALSE, rank |-> "none", bind |-> NoBindings, ct |-> "None"]

Init ==
    /\ pool \in Pools
    /\ cands = <<>>
    /\ topsets = [n \in Arities |-> [exists |-> FALSE, rootgt |-> <<>>, len |-> 0]]
    /\ gt = <<>>
    /\ lt = <<>>
    /\ cache = [n \in Arities |-> NoCache]
    /\ last = [op |-> "init", batch |-> <<>>, types |-> <<>>, ok |-> TRUE,
               out |-> NoOutcome]
    /\ m = NoMatchRun
    /\ registered = {}
    /\ pcs = NoReport
    /\ iters = <<>>
    /\ trie = NoTrie
    /\ ctrl = <<>>

Install(S) ==
    /\ cands' = S.cands
    /\ topsets' = S.topsets
    /\ gt' = S.gt
    /\ lt' = S.lt
    /\ cache' = S.cache

\* _add_candidate(candidate)
AddCandidate(candidate) ==
    /\ Len(cands) < MaxCands
    /\ \E r \in AddCandidateOp(S0, candidate, TRUE) :
          /\ Install(r.S)
          /\ last' = [op |-> "_add_candidate", batch |-> <<candidate>>, types |-> <<>>,
                      ok |-> r.ok, out |-> NoOutcome]
    /\ UNCHANGED <<pool, m, registered, pcs, iters, trie, ctrl>>

\* add_candidates(candidates), which add_func ends in
AddCandidates(candidates) ==
    /\ Len(candidates) >= 2
    /\ Len(cands) + Len(candidates) <= MaxCands
    /\ \E r \in AddCandidatesOp(S0, candidates) :
          /\ Install(r.S)
          /\ last' = [op |-> "add_candidates", batch |-> candidates, types |-> <<>>,
                      ok |-> r.ok, out |-> NoOutcome]
    /\ UNCHANGED <<pool, m, registered, pcs, iters, trie, ctrl>>

\* a cache entry is created only while fewer than MaxCached are alive
MayQuery(types) ==
    LET cached == UNION {DOMAIN cache[n].ent : n \in Arities}
    IN  types \in cached \/ Cardinality(cached) < MaxCached

\* get(args, kwargs, default=None) with arguments of the given types
Get(types) ==
    /\ MayQuery(types)
    /\ \E r \in {GetOp(S0, types, None)} :
           /\ cache' = r.cache
           /\ last' = [op |-> "get", batch |-> <<>>, types |-> types, ok |-> TRUE,
                       out |-> Observed(r)]
    /\ UNCHANGED <<cands, topsets, gt, lt, pool, m, registered, pcs, iters, trie, ctrl>>

\* __call__(*args) with arguments of the given types
Call(types) ==
    /\ MayQuery(types)
    /\ \E r \in {CallOp(S0, types)} :
           /\ cache' = r.cache
           /\ last' = [op |-> "__call__", batch |-> <<>>, types |-> types, ok |-> TRUE,
                       out |-> Observed(r)]
    /\ UNCHANGED <<cands, topsets, gt, lt, pool, m, registered, pcs, iters, trie, ctrl>>

Next ==
    \/ \E c \in Range(PoolOf(pool).cands) : AddCandidate(c)
    \/ \E b \in Batches(PoolOf(pool).cands, MaxBatch) : AddCandidates(b)
    \/ \E q \in PoolOf(pool).queries : Get(q)
    \/ \E q \in PoolOf(pool).queries : Call(q)

Spec == Init /\ [][Next]_vars

----------------------------------------------------------------------------
(* A dispatcher over an abstract base class whose register method is       *)
(* called while the dispatcher is in use                                   *)

InitAbc ==
    /\ pool = "Abc"
    /\ cands = <<>>
    /\ topsets = [n \in Arities |-> [exists |-> FALSE, rootgt |-> <<>>, len |-> 0]]
    /\ gt = <<>>
    /\ lt = <<>>
    /\ cache = [n \in Arities |-> NoCache]
    /\ last = [op |-> "init", batch |-> <<>>, types |-> <<>>, ok |-> TRUE,
               out |-> NoOutcome]
    /\ m = NoMatchRun
    /\ registered = {}
    /\ pcs = NoReport
    /\ iters = <<>>
    /\ trie = NoTrie
    /\ ctrl = <<>>

\* abstract.register(class): the dispatcher is not told
Register(class, abstract) ==
    /\ <<class, abstract>> \notin registered
    /\ registered' = registered \cup {<<class, abstract>>}
    /\ last' = [op |-> "register", batch |-> <<>>, types |-> <<class, abstract>>,
                ok |-> TRUE, out |-> NoOutcome]
    /\ UNCHANGED <<cands, topsets, gt, lt, cache, pool, m, pcs, iters, trie, ctrl>>

NextAbc ==
    \/ \E c \in Range(AbcPool.cands) : AddCandidate(c)
    \/ \E q \in AbcPool.queries : Get(q)
    \/ \E q \in AbcPool.queries : Call(q)
    \/ Register("Q", "P")

SpecAbc == InitAbc /\ [][NextAbc]_vars

----------------------------------------------------------------------------
(* Candidate.match on its own: every candidate signature below against     *)
(* every tuple of runtime types of its arity                               *)

MatchSignatures ==
    {<<TypeVarKey("U")>>, <<TypeVarKey("V")>>, <<TypeVarKey("T")>>,
     <<ClassKey("A")>>, <<AnyKey>>,
     <<TypeVarKey("T"), TypeVarKey("T")>>, <<TypeVarKey("T"), TypeVarKey("Y")>>,
     <<TypeVarKey("U"), TypeVarKey("U")>>, <<TypeVarKey("V"), ClassKey("A")>>}

TypeTuples(n) == IF n = 1 THEN {<<t>> : t \in Types} ELSE Types \X Types

InitMatch ==
    /\ pool = "Tree"
    /\ cands = <<>>
    /\ topsets = [n \in Arities |-> [exists |-> FALSE, rootgt |-> <<>>, len |-> 0]]
    /\ gt = <<>>
    /\ lt = <<>>
    /\ cache = [n \in Arities |-> NoCache]
    /\ last = [op |-> "init", batch |-> <<>>, types |-> <<>>, ok |-> TRUE,
               out |-> NoOutcome]
    /\ registered = {}
    /\ pcs = NoReport
    /\ iters = <<>>
    /\ trie = NoTrie
    /\ ctrl = <<>>
    /\ \E sig \in MatchSignatures :
          \E q \in TypeTuples(Len(sig)) :
              m = [cand |-> Cand(sig, 0, NotImplemented), query |-> q,
                   done |-> FALSE, rank |-> "none", bind |-> NoBindings, ct |-> "None"]

\* cand.match(query); ct is what constrain_type gives for the first position
\* when that position is a type variable
Match ==
    /\ ~m.done
    /\ LET r == CandidateMatch(m.cand, m.query)
           key == m.cand.types[1]
       IN  m' = [m EXCEPT !.done = TRUE, !.rank = r.rank, !.bind = r.bind,
                          !.ct = IF key[1] = "tv"
                                 THEN constrain_type(m.query[1], key[2])
                                 ELSE "None"]
    /\ UNCHANGED <<cands, topsets, gt, lt, cache, last, pool, registered, pcs, iters, trie, ctrl>>

NextMatch == Match

SpecMatch == InitMatch /\ [][NextMatch]_vars

----------------------------------------------------------------------------
(* Properties *)

IsCall == last.op \in {"get", "__call__"}

Log == last.out.log

\* the registered candidates of the arity of the last call that match its types
Matching == {c \in DOMAIN cands : Arity(cands[c]) = Len(last.types)
                                  /\ Matches(cands[c], last.types)}

\* a supersedes b
Supersedes(a, b) == Arity(cands[a]) = Arity(cands[b]) /\ CandLt(cands[a], cands[b])

\* C1: whenever a registered candidate a supersedes a registered candidate b
\* and both match the types of a call, the call invokes b only after it has
\* invoked a (and a has asked to go on by returning NotImplemented).
C1_SupersedingFirst ==
    IsCall =>
        \A a \in Matching : \A b \in Matching :
            Supersedes(a, b) =>
                \A j \in DOMAIN Log :
                    Log[j] = b =>
                        \E i \in 1..(j - 1) :
                            Log[i] = a /\ cands[a].func = NotImplemented

\* a complete run of layers() on the registry of arity n
RECURSIVE LayersFrom(_, _, _)
LayersFrom(S, n, g) ==
    LET r == LayersNext(S, n, g)
    IN  IF r.kind = "layer" THEN <<r.layer>> \o LayersFrom(S, n, r.gen) ELSE <<>>

AllLayers(S, n) == LayersFrom(S, n, NewLayers)

SameLayer(a, b) ==
    \E i \in DOMAIN AllLayers(S0, Arity(cands[a])) :
        {a, b} \subseteq Range(AllLayers(S0, Arity(cands[a]))[i])

Identity(c) == <<c.types, c.priority>>

\* C2: two matching candidates of equal priority neither of which supersedes
\* the other are never invoked by a call, the call does not run out of
\* candidates, and an AmbiguityError that names one of them names both.
C2_AmbiguityRaised ==
    IsCall =>
        \A a \in Matching : \A b \in Matching \ {a} :
            (/\ ~Supersedes(a, b)
             /\ ~Supersedes(b, a)
             /\ cands[a].priority = cands[b].priority)
            => /\ a \notin Range(Log)
               /\ last.out.kind \notin {"default", "NoCandidateError"}
               /\ (last.out.kind = "AmbiguityError" /\ a \in Range(last.out.group)
                      => b \in Range(last.out.group))

\* C3: _add_candidate raises ValueError exactly when a registered candidate
\* has the same types and priority, and then the registered candidates,
\* their graph and the cache are what they were before.
C3_DuplicateRejected ==
    [][last'.op = "_add_candidate" =>
          /\ last'.ok <=> ~\E i \in DOMAIN cands :
                               Identity(cands[i]) = Identity(last'.batch[1])
          /\ ~last'.ok => /\ cands' = cands
                          /\ gt' = gt
                          /\ lt' = lt
                          /\ topsets' = topsets
                          /\ cache' = cache]_vars

C3_Witness ==
    /\ last.op = "_add_candidate"
    /\ ~last.ok
    /\ Len(cands) >= 2

\* C4: a call in which no body returns a real result and no ambiguity or
\* binding error is raised ends with the default (get) or with
\* NoCandidateError (__call__).
C4_DefaultOrNoCandidate ==
    IsCall /\ last.out.kind \notin {"return", "AmbiguityError", "AmbiguousBindingError"}
        => /\ last.op = "get" => last.out.kind = "default" /\ last.out.value = None
           /\ last.op = "__call__" => last.out.kind = "NoCandidateError"

\* C5: when a query is cached and its call invokes r first, registering a
\* candidate that matches the query and supersedes r drops the cache entry
\* and makes the next call of the query prefer the new candidate: it does not
\* invoke r unless it has invoked the new candidate before.
C5_NewSpecificFirst ==
    [][(last'.op = "_add_candidate" /\ last'.ok) =>
          LET new == last'.batch[1]
              n == Arity(new)
          IN  \A q \in DOMAIN cache[n].ent :
                  LET before == GetOp(S0, q, None).log
                      after == GetOp(S0', q, None).log
                  IN  (/\ before # <<>>
                       /\ CandLt(new, cands[before[1]])
                       /\ Matches(new, q))
                      => /\ q \notin DOMAIN cache'[n].ent
                         /\ \A j \in DOMAIN after :
                                after[j] = before[1] =>
                                    \E i \in 1..(j - 1) : after[i] = Len(cands')]_vars

\* C6: every body invoked before the last one returned NotImplemented; a
\* body that returns anything else ends the call, which returns that value
\* with one RawReturnValue wrapper less (or unchanged if it has none); a call
\* that ends for want of candidates has invoked every group of the search, up
\* to its end.
C6_SentinelAndUnwrap ==
    IsCall =>
        /\ \A i \in 1..(Len(Log) - 1) : cands[Log[i]].func = NotImplemented
        /\ last.out.kind \in {"default", "NoCandidateError"} =>
              LET e == cache[Len(last.types)].ent[last.types]
              IN  /\ ~e.live
                  /\ e.sorted = [i \in DOMAIN Log |-> <<Log[i]>>]
        /\ last.out.kind = "return" => Log # <<>>
        /\ Log # <<>> =>
              LET ret == cands[Log[Len(Log)]].func
              IN  IF ret = NotImplemented THEN last.out.kind # "return"
                  ELSE /\ last.out.kind = "return"
                       /\ last.out.value.base = ret.base
                       /\ last.out.value.wraps =
                              IF ret.wraps = 0 THEN 0 ELSE ret.wraps - 1

C6_Witness ==
    /\ IsCall
    /\ last.out.kind = "return"
    /\ last.out.value = NotImplemented
    /\ Len(Log) >= 2

\* C7: a call never invokes a candidate while a matching candidate of the
\* same layer with a higher priority has not been invoked.
C7_PriorityDescending ==
    IsCall =>
        \A j \in DOMAIN Log : \A d \in Matching :
            (SameLayer(Log[j], d) /\ cands[d].priority > cands[Log[j]].priority)
            => \E i \in 1..(j - 1) : Log[i] = d

Matched == m.rank \in {"perfect", "upcast"}

\* the members of the constraints of variable v that type q is a subtype of
Accepting(v, q) == {c \in Range(Constraints[v]) : issubclass(q, c)}

\* the two bases of the constrained variables U and V, and the member of the
\* constraints of V that is a subtype of both
Bases == {"A", "B"}
CommonSubtype == "C"

\* C9 as stated: with a variable constrained to two bases, a subtype of one
\* base binds to it, a subtype of both raises AmbiguousBindingError, and with
\* the common subtype among the constraints a subtype of both bases binds to
\* the common subtype.
C9_ThirdMemberBinds ==
    \A v \in {"U", "V"} :
        (m.done /\ m.cand.types = <<TypeVarKey(v)>>) =>
            LET q == m.query[1]
                sub == Accepting(v, q) \cap Bases
            IN  /\ \A b \in Bases : sub = {b} => m.ct = b
                /\ sub = Bases =>
                      IF CommonSubtype \in Range(Constraints[v])
                      THEN m.ct = CommonSubtype
                      ELSE m.ct = "AmbiguousBindingError"

\* C9 amended: as above, but with the common subtype among the constraints a
\* subtype of both bases binds to the common subtype only if it is a subtype
\* of it, and raises AmbiguousBindingError otherwise.
C9_ThirdMemberBindsItsSubtypes ==
    \A v \in {"U", "V"} :
        (m.done /\ m.cand.types = <<TypeVarKey(v)>>) =>
            LET q == m.query[1]
                sub == Accepting(v, q) \cap Bases
            IN  /\ \A b \in Bases : sub = {b} => m.ct = b
                /\ sub = Bases =>
                      IF CommonSubtype \in Accepting(v, q)
                      THEN m.ct = CommonSubtype
                      ELSE m.ct = "AmbiguousBindingError"

C9_Witness ==
    /\ m.done
    /\ m.cand.types = <<TypeVarKey("V")>>
    /\ m.query = <<"E">>
    /\ Accepting("V", "E") = Bases
    /\ m.ct = "AmbiguousBindingError"

\* C10: the candidate (T, T) with T unconstrained matches the types (X, Y)
\* exactly when Y is X or a subtype of X, and then T is bound to X.
C10_SharedBinding ==
    (m.done /\ m.cand.types = <<TypeVarKey("T"), TypeVarKey("T")>>) =>
        /\ Matched <=> issubclass(m.query[2], m.query[1])
        /\ Matched => m.bind["T"] = m.query[1]
        /\ m.rank # "error"

C10_Witness ==
    /\ m.done
    /\ m.cand.types = <<TypeVarKey("T"), TypeVarKey("T")>>
    /\ m.query = <<"A", "D">>
    /\ m.rank = "upcast"

\* C11: a candidate whose types are registered already, but under other
\* priorities only, is registered by _add_candidate; and a call that two
\* matching candidates of the same types are registered for does not invoke
\* the one of lower priority unless it has invoked the other before, nor
\* raises an AmbiguityError naming the two.
C11_SameTypesOtherPriority ==
    [][/\ (/\ last'.op = "_add_candidate"
           /\ \E i \in DOMAIN cands : cands[i].types = last'.batch[1].types
           /\ \A i \in DOMAIN cands :
                  cands[i].types = last'.batch[1].types
                      => cands[i].priority # last'.batch[1].priority)
          => last'.ok /\ Len(cands') = Len(cands) + 1
       /\ last'.op \in {"get", "__call__"} =>
             \A a \in DOMAIN cands' : \A b \in DOMAIN cands' :
                 (/\ cands'[a].types = cands'[b].types
                  /\ cands'[a].priority > cands'[b].priority
                  /\ Matches(cands'[a], last'.types)
                  /\ Len(last'.types) = Arity(cands'[a]))
                 => /\ \A j \in DOMAIN last'.out.log :
                          last'.out.log[j] = b =>
                              \E i \in 1..(j - 1) : last'.out.log[i] = a
                    /\ ~({a, b} \subseteq Range(last'.out.group))]_vars

\* C12: a step that adds a candidate of arity n to the registry leaves no
\* cache entry of arity n, whether the operation returns or raises.
C12_CacheDroppedOnAdd ==
    [][\A n \in Arities :
           (\E i \in (Len(cands) + 1)..Len(cands') : Arity(cands'[i]) = n)
               => DOMAIN cache'[n].ent = {}]_vars

\* C13: while the candidates (Any) and (object) are registered with the same
\* priority, a call of one argument does not invoke the (Any) candidate
\* unless it has invoked the (object) candidate before, and raises no
\* AmbiguityError naming the two.
C13_ObjectBeforeAny ==
    IsCall =>
        \A a \in DOMAIN cands : \A o \in DOMAIN cands :
            (/\ cands[a].types = <<AnyKey>>
             /\ cands[o].types = K1("O")
             /\ cands[a].priority = cands[o].priority)
            => /\ \A j \in DOMAIN Log :
                     Log[j] = a => \E i \in 1..(j - 1) : Log[i] = o
               /\ ~({a, o} \subseteq Range(last.out.group))

----------------------------------------------------------------------------
(* MultiDispatch.candidates: the topological sets in the order the dict    *)
(* candidate_topsets got them, each iterated layer by layer                *)

\* the keys of candidate_topsets in insertion order: an arity is inserted by
\* the first candidate of that arity
RECURSIVE ArityOrder(_, _)
ArityOrder(S, i) ==
    IF i > Len(S.cands) THEN <<>>
    ELSE IF \E j \in 1..(i - 1) : Arity(S.cands[j]) = Arity(S.cands[i])
         THEN ArityOrder(S, i + 1)
         ELSE <<Arity(S.cands[i])>> \o ArityOrder(S, i + 1)

\* TopologicalSet.__iter__ consumed to its end: the elements it yields and
\* how the generator ends
RECURSIVE TopologicalSetIter(_, _, _)
TopologicalSetIter(S, n, g) ==
    LET r == LayersNext(S, n, g)
    IN  IF r.kind = "layer"
        THEN LET rest == TopologicalSetIter(S, n, r.gen)
             IN  [kind |-> rest.kind, items |-> r.layer \o rest.items]
        ELSE [kind |-> r.kind, items |-> <<>>]

\* list(candidates()): chain.from_iterable stops at the first exception
RECURSIVE ChainFrom(_, _)
ChainFrom(S, order) ==
    IF order = <<>> THEN [kind |-> "stop", items |-> <<>>]
    ELSE LET first == TopologicalSetIter(S, Head(order), NewLayers)
         IN  IF first.kind # "stop" THEN first
             ELSE LET rest == ChainFrom(S, Tail(order))
                  IN  [kind |-> rest.kind, items |-> first.items \o rest.items]

candidates(S) == ChainFrom(S, ArityOrder(S, 1))

\* C14: candidates() ends without an exception and yields every registered
\* candidate exactly once; of two candidates of one arity the one of higher
\* priority comes first, and of two of equal priority one that supersedes
\* the other comes first.
C14_CandidatesOrdered ==
    LET r == candidates(S0)
    IN  /\ r.kind = "stop"
        /\ Len(r.items) = Len(cands)
        /\ Range(r.items) = DOMAIN cands
        /\ \A i \in DOMAIN r.items : \A j \in DOMAIN r.items :
              (i < j /\ Arity(cands[r.items[i]]) = Arity(cands[r.items[j]]))
              => /\ cands[r.items[i]].priority >= cands[r.items[j]].priority
                 /\ cands[r.items[i]].priority = cands[r.items[j]].priority
                        => ~CandLt(cands[r.items[j]], cands[r.items[i]])

\* C15: once Q has been registered as a virtual subclass of the abstract
\* class P, a call with a Q argument for which the candidate constrained to
\* P is the only registered candidate that matches invokes that candidate,
\* whatever was called before the registration.
C15_RegisterNotReused ==
    (IsCall /\ last.types = <<"Q">> /\ <<"Q", "P">> \in registered) =>
        \A c \in DOMAIN cands :
            (cands[c].types = K1("P") /\ Matching = {c}) => Log = <<c>>

\* the index of the layer of layers() that holds candidate c, 0 if none
LayerOf(c) ==
    LET L == AllLayers(S0, Arity(cands[c]))
    IN  IF \E i \in DOMAIN L : c \in Range(L[i])
        THEN CHOOSE i \in DOMAIN L : c \in Range(L[i])
        ELSE 0

\* the registered candidates whose match against the types of the last
\* call is a binding error
BindingErrors ==
    {c \in DOMAIN cands : /\ Arity(cands[c]) = Len(last.types)
                          /\ CandidateMatch(cands[c], last.types).rank = "error"}

\* C16: when a matching candidate whose body returns a real result lies in
\* an earlier (more specific) layer than every candidate whose match is a
\* binding error, the call does not raise the binding error, and returns
\* the result of that candidate if it invokes it.
C16_BindingErrorOnlyWhenReached ==
    IsCall =>
        \A c \in Matching :
            (/\ cands[c].func # NotImplemented
             /\ BindingErrors # {}
             /\ \A e \in BindingErrors : LayerOf(c) < LayerOf(e))
            => /\ last.out.kind # "AmbiguousBindingError"
               /\ \A i \in DOMAIN Log :
                     Log[i] = c => /\ last.out.kind = "return"
                                   /\ last.out.value = unwrap(cands[c].func)

----------------------------------------------------------------------------
(* MultiDispatch.potential_conflicts and the PotentialConflictSet it fills. *)
(* The running audit is a record X:                                        *)
(*   S    the dispatcher, whose cache candidates_for_types works on;       *)
(*   amb  PotentialConflictSet.ambiguities: type tuple -> set of the       *)
(*        candidate sets of its PossibleAmbiguity objects;                 *)
(*   err  PotentialConflictSet.errors: <<index, type>> -> Error;           *)
(*   exc  the exception that has ended the audit, "none" while it runs;    *)
(*   c0   the variable c0 of conf_layer, 0 while it is unbound.            *)

TypeOrder == <<"O", "A", "B", "C", "D", "E", "P", "Q", "NoneType">>

\* the members of a set of types in the order the set is iterated
SetToSeq(ts) == SelectSeq(TypeOrder, LAMBDA t : t \in ts)

RECURSIVE ConcatAll(_)
ConcatAll(ss) == IF ss = <<>> THEN <<>> ELSE Head(ss) \o ConcatAll(Tail(ss))

\* itertools.product of two lists
Product2(xs, ys) ==
    [k \in 1..(Len(xs) * Len(ys)) |->
        <<xs[((k - 1) \div Len(ys)) + 1], ys[((k - 1) % Len(ys)) + 1]>>]

\* itertools.product(*lists)
RECURSIVE ProductAll(_)
ProductAll(lists) ==
    IF lists = <<>> THEN << <<>> >>
    ELSE LET rest == ProductAll(Tail(lists))
         IN  ConcatAll([i \in DOMAIN Head(lists) |->
                           [j \in DOMAIN rest |-> <<Head(lists)[i]>> \o rest[j]]])

\* itertools.combinations(s, 2)
RECURSIVE Combinations2(_)
Combinations2(xs) ==
    IF Len(xs) < 2 THEN <<>>
    ELSE [j \in 1..(Len(xs) - 1) |-> <<xs[1], xs[j + 1]>>] \o Combinations2(Tail(xs))

all_subclasses(t) == {c \in Types : issubclass(c, t)}

NoDict == [v \in {} |-> "O"]

Assign(dict, v, t) == [x \in DOMAIN dict \cup {v} |-> IF x = v THEN t ELSE dict[x]]

\* isinstance(t, TypeVarKey) and t.inner not in dict
Undefined(key, dict) == key[1] = "tv" /\ key[2] \notin DOMAIN dict

\* the types a key can be matched by; for a type variable that is not bound
\* yet, the types it can be bound to
match_types(key, dict) ==
    CASE key[1] = "class" -> all_subclasses(key[2])
      [] key[1] = "any" -> Types
      [] key[1] = "tv" ->
            IF key[2] \in DOMAIN dict THEN all_subclasses(dict[key[2]])
            ELSE IF Constraints[key[2]] # <<>> THEN Range(Constraints[key[2]])
            ELSE Types

\* the types whose match against the key is a binding error
error_types(key, dict) ==
    IF Undefined(key, dict)
    THEN {c \in Types : constrain_type(c, key[2]) = "AmbiguousBindingError"}
    ELSE {}

\* get_ambiguities: none stands for None, list for the list returned
RECURSIVE get_ambiguities(_, _, _, _), AmbiguitiesOver(_, _, _, _, _)
get_ambiguities(types0, types1, dict0, dict1) ==
    IF types0 = <<>> THEN [none |-> FALSE, list |-> << <<>> >>]
    ELSE LET t0 == Head(types0)
             t1 == Head(types1)
             m0 == match_types(t0, dict0)
             m1 == match_types(t1, dict1)
             amb_set == m0 \cap m1
         IN  IF amb_set = {} THEN [none |-> TRUE, list |-> <<>>]
             ELSE IF ~(Undefined(t0, dict0) \/ Undefined(t1, dict1))
             THEN LET sa == get_ambiguities(Tail(types0), Tail(types1), dict0, dict1)
                  IN  IF sa.none THEN sa
                      ELSE [none |-> FALSE,
                            list |-> [i \in DOMAIN sa.list |-> <<amb_set>> \o sa.list[i]]]
             ELSE [none |-> FALSE,
                   list |-> AmbiguitiesOver(Product2(SetToSeq(m0), SetToSeq(m1)),
                                            types0, types1, dict0, dict1)]

\* the loop of get_ambiguities over product(m0, m1)
AmbiguitiesOver(pairs, types0, types1, dict0, dict1) ==
    IF pairs = <<>> THEN <<>>
    ELSE LET a == Head(pairs)[1]
             b == Head(pairs)[2]
             t0 == Head(types0)
             t1 == Head(types1)
             d0 == IF Undefined(t0, dict0) THEN Assign(dict0, t0[2], a) ELSE dict0
             d1 == IF Undefined(t1, dict1) THEN Assign(dict1, t1[2], b) ELSE dict1
             sa == get_ambiguities(Tail(types0), Tail(types1), d0, d1)
         IN  (IF sa.none THEN <<>>
              ELSE [i \in DOMAIN sa.list |-> <<{a}>> \o sa.list[i]])
             \o AmbiguitiesOver(Tail(pairs), types0, types1, dict0, dict1)

\* get_errors as a list of (i, err_types, dict)
RECURSIVE get_errors(_, _, _)
get_errors(types, dict, i) ==
    IF types = <<>> THEN <<>>
    ELSE LET t == Head(types)
             err_types == error_types(t, dict)
             matches == SetToSeq(match_types(t, dict))
         IN  IF err_types # {}
             THEN << [i |-> i, et |-> err_types, dvr |-> dict] >>
             ELSE IF Undefined(t, dict)
             THEN ConcatAll([k \in DOMAIN matches |->
                                get_errors(Tail(types), Assign(dict, t[2], matches[k]),
                                           i + 1)])
             ELSE get_errors(Tail(types), dict, i + 1)

safe_issubclass(left, right) ==
    IF left = "O" THEN right = "O" ELSE issubclass(left, right)

\* supersedes: the loop from position i on, ret being its flag
RECURSIVE SupersedesFrom(_, _, _, _)
SupersedesFrom(lhs, rhs, i, ret) ==
    IF i > Len(lhs) THEN ret
    ELSE IF ret
         THEN IF ~safe_issubclass(rhs[i], lhs[i]) THEN FALSE
              ELSE SupersedesFrom(lhs, rhs, i + 1, ret)
         ELSE IF safe_issubclass(rhs[i], lhs[i])
              THEN SupersedesFrom(lhs, rhs, i + 1, lhs[i] # rhs[i])
              ELSE FALSE

supersedes(lhs, rhs) ==
    IF lhs = rhs \/ Len(lhs) # Len(rhs) THEN FALSE
    ELSE SupersedesFrom(lhs, rhs, 1, FALSE)

\* next() on CachedSearch.__iter__: the first group it yields
RECURSIVE NextGroup(_, _, _, _), NextGroupOn(_, _, _, _)
NextGroupOn(S, n, query, a) ==
    CASE a.kind = "end" -> [kind |-> "StopIteration", group |-> <<>>, e |-> a.e]
      [] a.kind = "layer" ->
            IF a.yield # <<>> THEN [kind |-> "group", group |-> a.yield[1], e |-> a.e]
            ELSE NextGroup(S, n, a.e, query)
      [] OTHER -> [kind |-> a.kind, group |-> <<>>, e |-> a.e]

NextGroup(S, n, e, query) ==
    IF e.sorted # <<>> THEN [kind |-> "group", group |-> e.sorted[1], e |-> e]
    ELSE IF ~e.live THEN [kind |-> "StopIteration", group |-> <<>>, e |-> e]
    ELSE NextGroupOn(S, n, query, Advance(S, n, e, query))

\* next(owner.candidates_for_types(*types)) once the search has given g
FirstGroupDone(S, types, y, g) ==
    [kind |-> g.kind, group |-> g.group,
     cache |-> [S.cache EXCEPT ![Len(types)] = PutEntry(y.sub, types, g.e)]]

FirstGroupOn(S, types, y) ==
    IF ~y.found
    THEN [kind |-> "KeyError", group |-> <<>>,
          cache |-> [S.cache EXCEPT ![Len(types)] = y.sub]]
    ELSE FirstGroupDone(S, types, y, NextGroup(S, Len(types), y.e, types))

\* next(owner.candidates_for_types(*types)): what it gives and the cache it leaves
FirstGroup(S, types) == FirstGroupOn(S, types, YieldLayers(S, types))

\* _add_ambiguity, immediate_cands having been asked for as fg
AddAmbiguityOn(X, types, cs, fg) ==
    LET X1 == [X EXCEPT !.S.cache = fg.cache]
        keys == {k \in DOMAIN X.amb : Len(k) = Len(types)}
        to_clear == {k \in keys : supersedes(types, k)}
        amb1 == [k \in DOMAIN X.amb \ to_clear |-> X.amb[k]]
        ls == IF types \in DOMAIN amb1 THEN amb1[types] ELSE {}
        joined_ambs == {amb \in ls : amb \cap cs # {}}
        super_amb == cs \cup UNION joined_ambs
    IN  IF fg.kind # "group" THEN [X1 EXCEPT !.exc = fg.kind]
        ELSE IF Len(fg.group) = 1 THEN X1
        ELSE IF \E i \in DOMAIN types : \E k \in Types :
                    <<i - 1, k>> \in DOMAIN X.err /\ issubclass(types[i], k)
        THEN X1
        ELSE IF \E k \in keys : ~supersedes(types, k) /\ supersedes(k, types)
        THEN X1
        ELSE [X1 EXCEPT !.amb =
                 [k \in DOMAIN amb1 \cup {types} |->
                     IF k = types THEN (ls \ joined_ambs) \cup {super_amb}
                     ELSE amb1[k]]]

\* _add_ambiguity
AddAmbiguity(X, types, cs) ==
    IF X.exc # "none" THEN X
    ELSE AddAmbiguityOn(X, types, cs, FirstGroup(X.S, types))

RECURSIVE AddAmbiguityAll(_, _, _)
AddAmbiguityAll(X, tuples, cs) ==
    IF tuples = <<>> THEN X
    ELSE AddAmbiguityAll(AddAmbiguity(X, Head(tuples), cs), Tail(tuples), cs)

\* add_ambiguities: the most general types of every position, then their product
add_ambiguities(X, type_sets, cs) ==
    AddAmbiguityAll(
        X,
        ProductAll([i \in DOMAIN type_sets |->
                       SetToSeq({t \in type_sets[i] :
                                    ~\E y \in type_sets[i] : y # t /\ issubclass(t, y)})]),
        cs)

\* [Bottom] * ind + [type_] + [Bottom] * (len(candidate.types) - ind - 1)
TypeArgs(ind, type_, n) == [i \in 1..n |-> IF i = ind + 1 THEN type_ ELSE "Bottom"]

\* add_error, immediate_cands having been asked for as fg
AddErrorOn(X, ind, type_, dvr, candidate, fg) ==
    LET X1 == [X EXCEPT !.S.cache = fg.cache]
    IN  IF fg.kind \notin {"group", "AmbiguousBindingError"}
        THEN [X1 EXCEPT !.exc = fg.kind]
        ELSE IF fg.kind = "group" /\ (Len(fg.group) # 1 \/ fg.group[1] # candidate)
        THEN X1
        ELSE IF \E k \in Types : <<ind, k>> \in DOMAIN X.err /\ issubclass(type_, k)
        THEN X1
        ELSE [X1 EXCEPT !.err =
                 [k \in DOMAIN X.err \cup {<<ind, type_>>} |->
                     IF k = <<ind, type_>>
                     THEN [exc_type |-> "AmbiguousBindingError", type_vars |-> dvr,
                           candidate |-> candidate]
                     ELSE X.err[k]]]

\* ret.add_error(i, t, ex_t, dvr, c0): c0 is looked up when the call is made
add_error(X, ind, type_, dvr) ==
    IF X.exc # "none" THEN X
    ELSE IF X.c0 = 0 THEN [X EXCEPT !.exc = "NameError"]
    ELSE AddErrorOn(X, ind, type_, dvr, X.c0,
                    FirstGroup(X.S, TypeArgs(ind, type_, Arity(X.S.cands[X.c0]))))

\* the two loops of process_err_cand, flattened to (i, t, dvr)
ErrorItems(errs) ==
    ConcatAll([k \in DOMAIN errs |->
                  [j \in DOMAIN SetToSeq(errs[k].et) |->
                      [i |-> errs[k].i, t |-> SetToSeq(errs[k].et)[j],
                       dvr |-> errs[k].dvr]]])

RECURSIVE AddErrorAll(_, _)
AddErrorAll(X, items) ==
    IF items = <<>> THEN X
    ELSE AddErrorAll(add_error(X, Head(items).i, Head(items).t, Head(items).dvr),
                     Tail(items))

process_err_cand(X, cand) ==
    AddErrorAll(X, ErrorItems(get_errors(X.S.cands[cand].types, NoDict, 0)))

\* sub_layers: the runs of equal priority of a layer
RECURSIVE sub_layers(_, _, _)
sub_layers(S, layer, ret) ==
    IF layer = <<>> THEN ret
    ELSE IF ret = <<>>
            \/ S.cands[ret[Len(ret)][Len(ret[Len(ret)])]].priority
                   # S.cands[Head(layer)].priority
         THEN sub_layers(S, Tail(layer), Append(ret, <<Head(layer)>>))
         ELSE sub_layers(S, Tail(layer), [ret EXCEPT ![Len(ret)] = Append(@, Head(layer))])

RECURSIVE AddAmbiguitiesAll(_, _, _)
AddAmbiguitiesAll(X, ambs, cs) ==
    IF ambs = <<>> THEN X
    ELSE AddAmbiguitiesAll(add_ambiguities(X, Head(ambs), cs), Tail(ambs), cs)

\* the body of the loop over combinations(s_layer, 2)
ConfPair(X, c0, c1) ==
    IF X.exc # "none" THEN X
    ELSE AddAmbiguitiesAll(
            process_err_cand([X EXCEPT !.c0 = c0], c0),
            get_ambiguities(X.S.cands[c0].types, X.S.cands[c1].types, NoDict, NoDict).list,
            {c0, c1})

RECURSIVE ConfPairs(_, _)
ConfPairs(X, pairs) ==
    IF pairs = <<>> THEN X
    ELSE ConfPairs(ConfPair(X, Head(pairs)[1], Head(pairs)[2]), Tail(pairs))

\* the body of the loop over sub_layers(layer)
ConfSubLayer(X, s_layer) ==
    process_err_cand(ConfPairs(X, Combinations2(s_layer)), s_layer[Len(s_layer)])

RECURSIVE ConfSubLayers(_, _)
ConfSubLayers(X, s_layers) ==
    IF s_layers = <<>> THEN X
    ELSE ConfSubLayers(ConfSubLayer(X, Head(s_layers)), Tail(s_layers))

\* conf_layer: every call starts with c0 unbound
conf_layer(X, layer) ==
    IF X.exc # "none" THEN X
    ELSE ConfSubLayers([X EXCEPT !.c0 = 0], sub_layers(X.S, layer, <<>>))

\* for layer in ts.layers(): conf_layer(layer, ret)
RECURSIVE ConfLayers(_, _, _), ConfLayersOn(_, _, _)
ConfLayersOn(X, n, r) ==
    CASE r.kind = "layer" -> ConfLayers(conf_layer(X, r.layer), n, r.gen)
      [] r.kind = "stop" -> X
      [] OTHER -> [X EXCEPT !.exc = r.kind]

ConfLayers(X, n, g) ==
    IF X.exc # "none" THEN X ELSE ConfLayersOn(X, n, LayersNext(X.S, n, g))

\* for ts in self.candidate_topsets.values()
RECURSIVE ConfTopsets(_, _)
ConfTopsets(X, order) ==
    IF order = <<>> THEN X
    ELSE ConfTopsets(ConfLayers(X, Head(order), NewLayers), Tail(order))

\* potential_conflicts: the audit at its end
potential_conflicts(S) ==
    ConfTopsets([S |-> S, amb |-> EmptyMap, err |-> EmptyMap, exc |-> "none", c0 |-> 0],
                ArityOrder(S, 1))

\* PotentialConflictSet.__bool__ returns self.errors or self.ambiguities
PcsBool(report) ==
    [pytype |-> "dict", value |-> IF DOMAIN report.err # {} THEN "errors" ELSE "ambiguities"]

\* bool(x) on what __bool__ returned: a TypeError unless it is a bool
Truth(v) ==
    IF v.pytype = "bool" THEN [exc |-> "none", value |-> v.value = "True"]
    ELSE [exc |-> "TypeError", value |-> FALSE]

\* "if self:", which assert_ and warn start with: what it raises, or then
\* or otherwise by the truth value
IfSelf(report, then, otherwise) ==
    IF Truth(PcsBool(report)).exc # "none" THEN Truth(PcsBool(report)).exc
    ELSE IF Truth(PcsBool(report)).value THEN then
    ELSE otherwise

bool(report) == IfSelf(report, "True", "False")

assert_(report) == IfSelf(report, "raise", "none")

warn(report) == IfSelf(report, "warn", "none")

----------------------------------------------------------------------------
(* A dispatcher that is audited while it is in use *)

AuditPool ==
    [cands |-> <<Cand(K1("A"), 0, Value("a")), Cand(K1("B"), 0, NotImplemented),
                Cand(<<TypeVarKey("U")>>, 0, Value("u")),
                Cand(K2("O", "D"), 0, Value("od")),
                Cand(<<TypeVarKey("U"), ClassKey("B")>>, 0, NotImplemented)>>,
     queries |-> {<<"C">>, <<"A", "A">>}]

InitAudit ==
    /\ pool = "Audit"
    /\ cands = <<>>
    /\ topsets = [n \in Arities |-> [exists |-> FALSE, rootgt |-> <<>>, len |-> 0]]
    /\ gt = <<>>
    /\ lt = <<>>
    /\ cache = [n \in Arities |-> NoCache]
    /\ last = [op |-> "init", batch |-> <<>>, types |-> <<>>, ok |-> TRUE,
               out |-> NoOutcome]
    /\ m = NoMatchRun
    /\ registered = {}
    /\ pcs = NoReport
    /\ iters = <<>>
    /\ trie = NoTrie
    /\ ctrl = <<>>

\* potential_conflicts()
PotentialConflicts ==
    /\ \E X \in {potential_conflicts(S0)} :
          /\ cache' = X.S.cache
          /\ pcs' = [made |-> TRUE, exc |-> X.exc, amb |-> X.amb, err |-> X.err]
          /\ last' = [op |-> "potential_conflicts", batch |-> <<>>, types |-> <<>>,
                      ok |-> X.exc = "none",
                      out |-> [NoOutcome EXCEPT !.kind = X.exc]]
    /\ UNCHANGED <<cands, topsets, gt, lt, pool, m, registered, iters, trie, ctrl>>

\* bool(report), report.assert_() and report.warn() on the report returned last
UseReport(op, outcome) ==
    /\ pcs.made
    /\ pcs.exc = "none"
    /\ last' = [op |-> op, batch |-> <<>>, types |-> <<>>, ok |-> outcome # "TypeError",
                out |-> [NoOutcome EXCEPT !.kind = outcome]]
    /\ UNCHANGED <<cands, topsets, gt, lt, cache, pool, m, registered, pcs, iters, trie, ctrl>>

Bool == UseReport("__bool__", bool(pcs))

AssertReport == UseReport("assert_", assert_(pcs))

WarnReport == UseReport("warn", warn(pcs))

NextAudit ==
    \/ \E c \in Range(AuditPool.cands) : AddCandidate(c)
    \/ \E q \in AuditPool.queries : Call(q)
    \/ PotentialConflicts
    \/ Bool
    \/ AssertReport
    \/ WarnReport

SpecAudit == InitAudit /\ [][NextAudit]_vars

\* C17: potential_conflicts() raises no exception.
C17_AuditNeverRaises ==
    pcs.made => pcs.exc = "none"

\* the report holds no potential error and no potential ambiguity
Clean == DOMAIN pcs.err = {} /\ DOMAIN pcs.amb = {}

\* C18: bool(report) is False when the report holds no potential error and
\* no potential ambiguity and True otherwise; assert_() raises the report and
\* warn() emits it in the True case, and both do nothing in the False case.
C18_TruthValue ==
    /\ last.op = "__bool__" => last.out.kind = IF Clean THEN "False" ELSE "True"
    /\ last.op = "assert_" => last.out.kind = IF Clean THEN "none" ELSE "raise"
    /\ last.op = "warn" => last.out.kind = IF Clean THEN "none" ELSE "warn"

\* C19: potential_conflicts() leaves the cache with the entries it had, each
\* with the materialized prefix it had.
C19_AuditLeavesCache ==
    [][last'.op = "potential_conflicts" =>
          \A n \in Arities :
              /\ DOMAIN cache'[n].ent = DOMAIN cache[n].ent
              /\ \A q \in DOMAIN cache[n].ent :
                    cache'[n].ent[q].sorted = cache[n].ent[q].sorted]_vars

\* the report covers the type tuple q: a potential ambiguity is reported for
\* q or for supertypes of q, or a potential error for a supertype of one
\* position of q
Covered(q) ==
    /\ pcs.exc = "none"
    /\ \/ \E k \in DOMAIN pcs.amb :
              Len(k) = Len(q) /\ \A i \in DOMAIN q : issubclass(q[i], k[i])
       \/ \E k \in DOMAIN pcs.err :
              k[1] < Len(q) /\ issubclass(q[k[1] + 1], k[2])

\* a call with arguments of the types q raises before any body is invoked
RaisesAtOnce(q) ==
    /\ CallOp(S0, q).kind \in {"AmbiguityError", "AmbiguousBindingError"}
    /\ CallOp(S0, q).log = <<>>

\* C20: once potential_conflicts() has run, every type tuple a call raises
\* AmbiguityError or a binding error for before it invokes any body is
\* covered by the report.
C20_AuditCoversCalls ==
    last.op = "potential_conflicts" =>
        \A q \in TypeTuples(1) \cup TypeTuples(2) : RaisesAtOnce(q) => Covered(q)

----------------------------------------------------------------------------
(* Registration from a function: Candidate.from_func and add_func.         *)
(*                                                                         *)
(* A type hint is a class <<"class", t>>, typing.Any, a type variable      *)
(* <<"tv", v>>, typing.Union <<"union", hints>> or <<"missing">> for a     *)
(* parameter without annotation.  A parameter is                           *)
(*   [kind, hint, default]                                                 *)
(* with kind "positional" or "keyword" and default "empty", "None" or the  *)
(* class of the default value.  The classes of the hierarchy above have no *)
(* entry in type_aliases.                                                  *)

Hint(t) == <<"class", t>>
UnionHint(hints) == <<"union", hints>>
Missing == <<"missing">>

Param(kind, hint, default) == [kind |-> kind, hint |-> hint, default |-> default]

\* what to_type_iter returns: a tuple, or (iter = TRUE) the one-shot
\* iterator chain.from_iterable makes for a Union
RECURSIVE to_type_iter(_)
to_type_iter(t) ==
    IF t[1] = "union"
    THEN [iter |-> TRUE,
          items |-> ConcatAll([a \in DOMAIN t[2] |-> to_type_iter(t[2][a]).items])]
    ELSE [iter |-> FALSE, items |-> <<t>>]

\* type_hints.issubclass_tv(cls, scls): "True", "False" or (constrain_type
\* raising) "AmbiguousBindingError"
issubclass_tv(cls, scls) ==
    CASE scls[1] = "any" -> "True"
      [] scls[1] = "tv" ->
            IF constrain_type(cls, scls[2]) = "AmbiguousBindingError"
            THEN "AmbiguousBindingError"
            ELSE IF constrain_type(cls, scls[2]) # "None" THEN "True" ELSE "False"
      [] scls[1] = "class" -> IF issubclass(cls, scls[2]) THEN "True" ELSE "False"

\* any(issubclass_tv(default_type, x) for x in i): the position of the first
\* item that accepts default_type, 0 when none does, -1 when issubclass_tv
\* raises before one is found
RECURSIVE AnyAccepts(_, _, _)
AnyAccepts(default_type, items, k) ==
    IF k > Len(items) THEN 0
    ELSE LET v == issubclass_tv(default_type, items[k])
         IN  IF v = "AmbiguousBindingError" THEN -1
             ELSE IF v = "True" THEN k
             ELSE AnyAccepts(default_type, items, k + 1)

\* what is left of i once any() has read it up to position k (all of it
\* when k = 0): a tuple is read again from its start, an iterator is not
LeftOf(i, k) ==
    IF ~i.iter THEN i
    ELSE [i EXCEPT !.items = IF k = 0 THEN <<>> ELSE SubSeq(i.items, k + 1, Len(i.items))]

\* the loop of from_func over the parameters; supers holds the lengths of
\* the copies of type_iters appended to super_type_iters, whose members are
\* the same objects as those of type_iters
RECURSIVE FromFuncLoop(_, _, _)
FromFuncLoop(params, type_iters, supers) ==
    IF params = <<>> THEN [exc |-> "none", type_iters |-> type_iters, supers |-> supers]
    ELSE LET p == Head(params)
             i == to_type_iter(p.hint)
             default_type == IF p.default = "None" THEN "NoneType" ELSE p.default
             k == AnyAccepts(default_type, i.items, 1)
         IN  IF p.kind # "positional"
             THEN [exc |-> "none", type_iters |-> type_iters, supers |-> supers]
             ELSE IF p.hint = Missing
             THEN IF p.default = "empty"
                  THEN [exc |-> "none", type_iters |-> type_iters, supers |-> supers]
                  ELSE [exc |-> "KeyError", type_iters |-> type_iters, supers |-> supers]
             ELSE IF p.default = "empty"
             THEN FromFuncLoop(Tail(params), Append(type_iters, i), supers)
             ELSE IF default_type = "O"
             THEN FromFuncLoop(Tail(params), Append(type_iters, i),
                               Append(supers, Len(type_iters)))
             ELSE IF k = -1
             THEN [exc |-> "AmbiguousBindingError", type_iters |-> type_iters,
                   supers |-> supers]
             ELSE IF k = 0 /\ p.default = "None"
             THEN FromFuncLoop(Tail(params),
                               Append(type_iters,
                                      [iter |-> FALSE,
                                       items |-> <<Hint(default_type)>>
                                                     \o LeftOf(i, k).items]),
                               Append(supers, Len(type_iters)))
             ELSE FromFuncLoop(Tail(params), Append(type_iters, LeftOf(i, k)),
                               Append(supers, Len(type_iters)))

\* product(*ti) for the copy of the first n members of type_iters, taken
\* after product(*type_iters) has exhausted every iterator
ProductOfCopy(type_iters, n) ==
    IF \E j \in 1..n : type_iters[j].iter THEN <<>>
    ELSE ProductAll([j \in 1..n |-> type_iters[j].items])

\* list(chain.from_iterable(product(*ti) for ti in super_type_iters))
type_lists(type_iters, supers) ==
    ProductAll([j \in DOMAIN type_iters |-> type_iters[j].items])
        \o ConcatAll([s \in DOMAIN supers |-> ProductOfCopy(type_iters, supers[s])])

\* SubPriority orders by (original, weight); the pair is kept as the integer
\* original * SubPriorityScale + weight, which orders the same way while
\* -SubPriorityScale < weight <= 0
SubPriorityScale == 4

SubPriorityMake(original, weight) == original * SubPriorityScale + weight

\* the default priority_adjust of from_func
priority_adjust(original, types) ==
    LET t_var_count == Cardinality({types[j] : j \in {x \in DOMAIN types : types[x][1] = "tv"}})
    IN  SubPriorityMake(original, 0 - t_var_count)

\* Candidate.from_func(priority, func) for func = [params, body]
from_func(priority, func) ==
    LET loop == FromFuncLoop(func.params, <<>>, <<>>)
        lists == type_lists(loop.type_iters, loop.supers)
    IN  IF loop.exc # "none" THEN [exc |-> loop.exc, cands |-> <<>>]
        ELSE [exc |-> "none",
              cands |-> [j \in DOMAIN lists |->
                            Cand(lists[j], priority_adjust(priority, lists[j]),
                                 func.body)]]

\* add_func once from_func has returned or raised
AddFuncOn(S, made) ==
    IF made.exc # "none" THEN {[ok |-> FALSE, S |-> S, made |-> made]}
    ELSE {[ok |-> r.ok, S |-> r.S, made |-> made]
          : r \in AddCandidatesOp(S, made.cands)}

\* add_func(priority, symmetric=False, func)
AddFuncOp(S, priority, func) ==
    UNION {AddFuncOn(S, made) : made \in {from_func(priority, func)}}

Pos(hint) == Param("positional", hint, "empty")

\* the functions registered:
\*   f1(a: Union[A, B])                 f2(a: A, b: Union[A, B] = A())
\*   f3(a: Union[A, B], b: D = D())     f4(a: U, b: B = None)
\*   f5(a: Union[C, Any], *, k: A)      f6(a: A, b=B())
\*   f7(a: D, b)
FuncPool ==
    [funcs |->
        <<[name |-> "f1", priority |-> 0, body |-> Value("f1"),
           params |-> <<Pos(UnionHint(<<Hint("A"), Hint("B")>>))>>],
          [name |-> "f2", priority |-> 0, body |-> Value("f2"),
           params |-> <<Pos(Hint("A")),
                        Param("positional", UnionHint(<<Hint("A"), Hint("B")>>), "A")>>],
          [name |-> "f3", priority |-> 1, body |-> NotImplemented,
           params |-> <<Pos(UnionHint(<<Hint("A"), Hint("B")>>)),
                        Param("positional", Hint("D"), "D")>>],
          [name |-> "f4", priority |-> 0, body |-> Value("f4"),
           params |-> <<Pos(TypeVarKey("U")), Param("positional", Hint("B"), "None")>>],
          [name |-> "f5", priority |-> 0, body |-> NotImplemented,
           params |-> <<Pos(UnionHint(<<Hint("C"), AnyKey>>)),
                        Param("keyword", Hint("A"), "empty")>>],
          [name |-> "f6", priority |-> 0, body |-> Value("f6"),
           params |-> <<Pos(Hint("A")), Param("positional", Missing, "B")>>],
          [name |-> "f7", priority |-> 1, body |-> Value("f7"),
           params |-> <<Pos(Hint("D")), Pos(Missing)>>]>>,
     queries |-> {<<"A">>, <<"C">>, <<"A", "A">>}]

InitFunc ==
    /\ pool = "Func"
    /\ cands = <<>>
    /\ topsets = [n \in Arities |-> [exists |-> FALSE, rootgt |-> <<>>, len |-> 0]]
    /\ gt = <<>>
    /\ lt = <<>>
    /\ cache = [n \in Arities |-> NoCache]
    /\ last = [op |-> "init", batch |-> <<>>, types |-> <<>>, ok |-> TRUE,
               out |-> NoOutcome]
    /\ m = NoMatchRun
    /\ registered = {}
    /\ pcs = NoReport
    /\ iters = <<>>
    /\ trie = NoTrie
    /\ ctrl = <<>>

\* add_func(priority, func=func)
AddFunc(func) ==
    /\ \E r \in AddFuncOp(S0, func.priority, func) :
          /\ Len(cands) + Len(r.made.cands) <= MaxCands
          /\ Install(r.S)
          /\ last' = [op |-> "add_func", batch |-> r.made.cands, types |-> <<>>,
                      ok |-> r.ok, out |-> NoOutcome, func |-> func]
    /\ UNCHANGED <<pool, m, registered, pcs, iters, trie, ctrl>>

NextFunc ==
    \/ \E f \in Range(FuncPool.funcs) : AddFunc(f)
    \/ \E q \in FuncPool.queries : Get(q)
    \/ \E q \in FuncPool.queries : Call(q)

SpecFunc == InitFunc /\ [][NextFunc]_vars

\* the alternatives an annotation names
RECURSIVE Alternatives(_)
Alternatives(hint) ==
    IF hint[1] = "union"
    THEN UNION {Alternatives(hint[2][a]) : a \in DOMAIN hint[2]}
    ELSE {hint}

\* the cross product of the alternatives of the annotated parameters
RECURSIVE CrossProduct(_)
CrossProduct(params) ==
    IF params = <<>> \/ Head(params).kind # "positional" \/ Head(params).hint = Missing
    THEN {<<>>}
    ELSE {<<a>> \o rest : a \in Alternatives(Head(params).hint),
                          rest \in CrossProduct(Tail(params))}

\* C21: once add_func has registered a function whose annotations hold
\* alternatives, one candidate is stored for every element of the cross
\* product of the alternatives, every candidate made holds only classes,
\* Any and type variables, and all of them have the body of the function.
C21_UnionCrossProduct ==
    (last.op = "add_func" /\ last.ok) =>
        /\ \A types \in CrossProduct(last.func.params) :
               \E j \in DOMAIN cands :
                   cands[j].types = types /\ cands[j].func = last.func.body
        /\ \A j \in DOMAIN last.batch :
               /\ last.batch[j].func = last.func.body
               /\ \A x \in DOMAIN last.batch[j].types :
                      last.batch[j].types[x][1] \in {"class", "any", "tv"}

----------------------------------------------------------------------------
(* The structure TopologicalSet.add builds and layers() walks *)

\* C22: whatever the order of the add calls, layers() emits a in a strictly
\* earlier layer than b whenever a < b, so that no layer holds two
\* comparable elements.
C22_LayersRespectOrder ==
    \A a, b \in DOMAIN cands :
        (Arity(cands[a]) = Arity(cands[b]) /\ CandLt(cands[a], cands[b])) =>
            /\ LayerOf(a) > 0
            /\ LayerOf(a) < LayerOf(b)

\* p is covered by c: p < c with no element strictly between them
Covers(p, c) ==
    /\ Arity(cands[p]) = Arity(cands[c])
    /\ CandLt(cands[p], cands[c])
    /\ ~\E x \in DOMAIN cands :
           /\ Arity(cands[x]) = Arity(cands[p])
           /\ CandLt(cands[p], cands[x])
           /\ CandLt(cands[x], cands[c])

\* C24: after any sequence of add calls the parent/child edges are exactly
\* the covering relation: c is a child of p iff p < c and no element lies
\* strictly between them.
C24_EdgesAreCovering ==
    \A p, c \in DOMAIN cands : (c \in Range(gt[p])) <=> Covers(p, c)

----------------------------------------------------------------------------
(* Iterators over a CachedSearch that are advanced in turns.               *)
(*                                                                         *)
(* candidates_for_types returns the generator CachedSearch.__iter__ makes. *)
(* An iterator is                                                          *)
(*   query  the type tuple of its CachedSearch;                            *)
(*   pc     "sorted" while it is in `yield from self.sorted`, "advance"    *)
(*          while it is in `yield from self.advance()`, "done" once it has *)
(*          returned or raised;                                            *)
(*   idx    how many members of self.sorted its list iterator has passed;  *)
(*   pend   what is left of reversed(ret) of its advance();                *)
(*   out    the groups it has yielded;                                     *)
(*   end    "" while it runs, then "stop" or the exception it raised.      *)

MaxIters == 2       \* iterators open at the same time

NewIter(query) ==
    [query |-> query, pc |-> "sorted", idx |-> 0, pend |-> <<>>, out |-> <<>>,
     end |-> ""]

Yield(it, group) == [it EXCEPT !.out = Append(@, group)]

RECURSIVE IterLoop(_, _, _, _), IterLoopOn(_, _, _, _)

\* the iterator once its advance() has ended as a
IterLoopOn(S, n, it, a) ==
    CASE a.kind = "end" -> IterLoop(S, n, a.e, it)
      [] a.kind \in {"AssertionError", "KeyError", "AmbiguousBindingError"} ->
            [it |-> [it EXCEPT !.pc = "done", !.end = a.kind, !.pend = <<>>], e |-> a.e]
      [] OTHER ->
            IF a.yield = <<>> THEN IterLoop(S, n, a.e, it)
            ELSE [it |-> Yield([it EXCEPT !.pc = "advance", !.pend = Tail(a.yield)],
                               Head(a.yield)),
                  e |-> a.e]

\* while self.layer_iter: yield from self.advance()
IterLoop(S, n, e, it) ==
    IF ~e.live
    THEN [it |-> [it EXCEPT !.pc = "done", !.end = "stop", !.pend = <<>>], e |-> e]
    ELSE IterLoopOn(S, n, it, Advance(S, n, e, it.query))

\* next(it) on an iterator over the CachedSearch e: the iterator and the
\* CachedSearch it leaves
IterNext(S, n, e, it) ==
    CASE it.pc = "sorted" ->
            IF it.idx < Len(e.sorted)
            THEN [it |-> Yield([it EXCEPT !.idx = @ + 1], e.sorted[it.idx + 1]), e |-> e]
            ELSE IterLoop(S, n, e, it)
      [] it.pc = "advance" ->
            IF it.pend # <<>>
            THEN [it |-> Yield([it EXCEPT !.pend = Tail(@)], Head(it.pend)), e |-> e]
            ELSE IterLoop(S, n, e, it)
      [] it.pc = "done" -> [it |-> it, e |-> e]

\* a layer without a match for the call, a layer of two priority groups and
\* layers of one
IterPool ==
    [cands |-> <<Cand(K1("Q"), 0, NotImplemented), Cand(K1("O"), 0, Value("o")),
                Cand(K1("O"), 1, NotImplemented), Cand(K1("A"), 0, NotImplemented)>>,
     queries |-> {<<"C">>}]

InitIter ==
    /\ pool = "Iter"
    /\ cands = <<>>
    /\ topsets = [n \in Arities |-> [exists |-> FALSE, rootgt |-> <<>>, len |-> 0]]
    /\ gt = <<>>
    /\ lt = <<>>
    /\ cache = [n \in Arities |-> NoCache]
    /\ last = [op |-> "init", batch |-> <<>>, types |-> <<>>, ok |-> TRUE,
               out |-> NoOutcome]
    /\ m = NoMatchRun
    /\ registered = {}
    /\ pcs = NoReport
    /\ iters = <<>>
    /\ trie = NoTrie
    /\ ctrl = <<>>

\* _add_candidate while no iterator is open
AddCandidateIdle(candidate) ==
    /\ iters = <<>>
    /\ AddCandidate(candidate)

\* candidates_for_types(*types): _yield_layers, then iter() of what it gives
CandidatesForTypes(types) ==
    /\ Len(iters) < MaxIters
    /\ MayQuery(types)
    /\ \E y \in {YieldLayers(S0, types)} :
          /\ cache' = [cache EXCEPT ![Len(types)] =
                           IF y.found THEN PutEntry(y.sub, types, y.e) ELSE y.sub]
          /\ iters' = IF y.found THEN Append(iters, NewIter(types)) ELSE iters
          /\ last' = [op |-> "candidates_for_types", batch |-> <<>>, types |-> types,
                      ok |-> y.found, out |-> NoOutcome]
    /\ UNCHANGED <<cands, topsets, gt, lt, pool, m, registered, pcs, trie, ctrl>>

\* next() on the i-th open iterator
IterStep(i) ==
    /\ i \in DOMAIN iters
    /\ iters[i].pc # "done"
    /\ \E r \in {IterNext(S0, Len(iters[i].query), cache[Len(iters[i].query)].ent[iters[i].query],
                          iters[i])} :
          /\ iters' = [iters EXCEPT ![i] = r.it]
          /\ cache' = [cache EXCEPT ![Len(iters[i].query)].ent[iters[i].query] = r.e]
          /\ last' = [op |-> "next", batch |-> <<>>, types |-> iters[i].query,
                      ok |-> r.it.end \in {"", "stop"}, out |-> NoOutcome]
    /\ UNCHANGED <<cands, topsets, gt, lt, pool, m, registered, pcs, trie, ctrl>>

NextIter ==
    \/ \E c \in Range(IterPool.cands) : AddCandidateIdle(c)
    \/ \E q \in IterPool.queries : CandidatesForTypes(q)
    \/ \E i \in 1..MaxIters : IterStep(i)
    \/ \E q \in IterPool.queries : Get(q)

SpecIter == InitIter /\ [][NextIter]_vars

\* the groups an iterator over a CachedSearch yields when nothing else
\* advances the CachedSearch meanwhile
RECURSIVE Uninterleaved(_, _, _, _)
Uninterleaved(S, n, e, it) ==
    IF it.pc = "done" THEN it
    ELSE LET r == IterNext(S, n, e, it)
         IN  Uninterleaved(S, n, r.e, r.it)

\* C23: an iterator over a cache entry that ends while others over the same
\* entry are advanced in between has yielded every matching priority group
\* once, in the order of a walk that nothing interleaves with.
C23_InterleavedIterations ==
    \A i \in DOMAIN iters :
        iters[i].pc = "done" =>
            LET alone == Uninterleaved(S0, Len(iters[i].query), NewCachedSearch,
                                       NewIter(iters[i].query))
            IN  /\ iters[i].end = alone.end
                /\ iters[i].out = alone.out

----------------------------------------------------------------------------
(* The shape of the graph and a complete run of layers() *)

\* the registered candidates of arity n
OfArity(n) == {c \in DOMAIN cands : Arity(cands[c]) = n}

\* a complete run of layers() over the topset of arity n
CompleteRun(n) == TopologicalSetIter(S0, n, NewLayers)

\* C25: after any sequence of add calls a complete run of layers() ends
\* without the 'cycles!' assertion failing and yields every element exactly
\* once; every edge is recorded at both ends, and a node that has the root
\* as a parent has no other parent.
C25_GraphWellFormed ==
    /\ \A n \in Arities :
           topsets[n].exists =>
               /\ CompleteRun(n).kind = "stop"
               /\ Len(CompleteRun(n).items) = Cardinality(OfArity(n))
               /\ Range(CompleteRun(n).items) = OfArity(n)
    /\ \A c \in DOMAIN cands :
           /\ \A p \in DOMAIN cands : (c \in Range(gt[p])) <=> (p \in lt[c])
           /\ (c \in Range(topsets[Arity(cands[c])].rootgt)) <=> (0 \in lt[c])
           /\ 0 \in lt[c] => lt[c] = {0}

\* three candidates of one arity are registered, one of them below another
C25_Witness ==
    \E n \in Arities :
        /\ Cardinality(OfArity(n)) >= 3
        /\ \E p, c \in OfArity(n) : c \in Range(gt[p])
        /\ Len(CompleteRun(n).items) = Cardinality(OfArity(n))

----------------------------------------------------------------------------
(* What advance() leaves in a CachedSearch *)

\* the layers generator once k layers have been taken from it
RECURSIVE GenAfter(_, _, _)
GenAfter(S, n, k) ==
    IF k = 0 THEN NewLayers ELSE LayersNext(S, n, GenAfter(S, n, k - 1)).gen

\* the matching candidates of the first k registry layers, each layer
\* grouped by priority, the groups of a layer in descending priority
RECURSIVE Materialized(_, _, _, _)
Materialized(S, n, query, k) ==
    IF k = 0 THEN <<>>
    ELSE Materialized(S, n, query, k - 1)
             \o Reverse(Groups(S, AllLayers(S, n)[k], query, <<>>))

IsPrefix(s, t) == Len(s) <= Len(t) /\ SubSeq(t, 1, Len(s)) = s

\* the CachedSearch e for query holds what advance() makes of the first k
\* registry layers, the k-th being chained back if matching it raised
HoldsLayers(e, query, k) ==
    LET n == Len(query)
        L == Len(AllLayers(S0, n))
    IN  /\ k <= L + 1
        /\ e.gen = GenAfter(S0, n, k)
        /\ e.live <=> (k <= L)
        /\ Len(e.pushed) <= 1
        /\ e.pushed # <<>> => (k \in 1..L /\ e.pushed[1] = AllLayers(S0, n)[k])
        /\ e.sorted = Materialized(S0, n, query,
                                   (IF k > L THEN L ELSE k) - Len(e.pushed))

----------------------------------------------------------------------------
(* A call that raised a binding error, made again *)

\* the CachedSearch entries whose advance() raised while matching a layer:
\* the layer is chained back in front of layer_iter
Raised == {<<n, q>> \in Arities \X (TypeTuples(1) \cup TypeTuples(2)) :
               q \in DOMAIN cache[n].ent /\ cache[n].ent[q].pushed # <<>>}

\* the candidates of the groups of a materialized prefix, in order
Flat(sorted) == ConcatAll(sorted)

\* C27: once a call has raised a binding error while matching layer L, a
\* call with the same types raises the same error again after invoking the
\* same bodies in the same order, and the prefix holds no candidate of
\* layer L and no candidate twice.
C27_BindingErrorRepeats ==
    /\ \A nq \in Raised :
           LET e == cache[nq[1]].ent[nq[2]]
               again == GetOp(S0, nq[2], None)
           IN  /\ again.kind = "AmbiguousBindingError"
               /\ again.log = Flat(e.sorted)
               /\ again.cache[nq[1]].ent[nq[2]] = e
               /\ Range(Flat(e.sorted)) \cap Range(e.pushed[1]) = {}
               /\ Cardinality(Range(Flat(e.sorted))) = Len(Flat(e.sorted))
    /\ (IsCall /\ last.out.kind = "AmbiguousBindingError") =>
           /\ <<Len(last.types), last.types>> \in Raised
           /\ GetOp(S0, last.types, None).log = last.out.log

\* a call has raised a binding error after invoking a body of an earlier layer
C27_Witness ==
    /\ IsCall /\ last.out.kind = "AmbiguousBindingError"
    /\ last.out.log # <<>>
    /\ <<Len(last.types), last.types>> \in Raised

----------------------------------------------------------------------------
(* The length of a single call *)

\* the layers the CachedSearch e of arity n can still take from layer_iter
Pending(n, e) == Len(e.pushed) + Len(LayersFrom(S0, n, e.gen))

\* the CachedSearch a call with the given types starts from
EntryBefore(types) ==
    IF types \in DOMAIN cache[Len(types)].ent THEN cache[Len(types)].ent[types]
    ELSE NewCachedSearch

\* the layers a call has taken from layer_iter, the one it chained back
\* included, given the CachedSearch before and after it
Examined(n, before, after) ==
    (Pending(n, before) - Len(before.pushed)) - (Pending(n, after) - Len(after.pushed))

Outcomes == {"return", "default", "NoCandidateError", "AmbiguityError",
             "AmbiguousBindingError", "KeyError"}

\* C28: a single call invokes the body of each candidate at most once, takes
\* each registry layer of the arity at most once, and ends with a result,
\* the default or an error after at most as many layers as the registry
\* holds.
C28_CallBounded ==
    [][(last'.op \in {"get", "__call__"}) =>
          LET types == last'.types
              n == Len(types)
              log == last'.out.log
          IN  /\ last'.out.kind \in Outcomes
              /\ Cardinality(Range(log)) = Len(log)
              /\ Range(log) \subseteq OfArity(n)
              /\ types \in DOMAIN cache'[n].ent =>
                    /\ Examined(n, EntryBefore(types), cache'[n].ent[types]) >= 0
                    /\ Examined(n, EntryBefore(types), cache'[n].ent[types])
                           <= Len(AllLayers(S0, n))
                    /\ Pending(n, cache'[n].ent[types]) <= Pending(n, EntryBefore(types))]_vars

\* a call has invoked two bodies and has taken every layer of the registry
C28_Witness ==
    /\ IsCall
    /\ Len(last.out.log) >= 2
    /\ last.out.kind \in {"default", "NoCandidateError"}
    /\ last.types \in DOMAIN cache[Len(last.types)].ent
    /\ ~cache[Len(last.types)].ent[last.types].live

----------------------------------------------------------------------------
(* What a registration and a call leave alone *)

\* the dispatcher after the step
S1 == [cands |-> cands', topsets |-> topsets', gt |-> gt', lt |-> lt', cache |-> cache']

\* the arities of the candidates handed to the registration just made
Touched == {Arity(last'.batch[i]) : i \in DOMAIN last'.batch}

\* C29: registering candidates of arity n leaves the registered candidates
\* of every other arity, their layering and the cache entries of every other
\* arity unchanged.
C29_OtherAritiesUntouched ==
    [][(last'.op \in {"_add_candidate", "add_candidates"}) =>
          \A k \in Arities \ Touched :
              /\ \A c \in DOMAIN cands : cands'[c] = cands[c]
              /\ {c \in DOMAIN cands' : Arity(cands'[c]) = k} = OfArity(k)
              /\ topsets'[k] = topsets[k]
              /\ \A c \in OfArity(k) : gt'[c] = gt[c] /\ lt'[c] = lt[c]
              /\ AllLayers(S1, k) = AllLayers(S0, k)
              /\ cache'[k] = cache[k]]_vars

\* a candidate of one arity has been registered while candidates of the
\* other arity were registered and a call of that arity was cached
C29_Witness ==
    /\ last.op = "_add_candidate" /\ last.ok
    /\ \E k \in Arities \ {Arity(last.batch[1])} :
           /\ OfArity(k) # {}
           /\ DOMAIN cache[k].ent # {}

\* C30: a call, whether it returns, returns the default or raises
\* AmbiguityError, a binding error or NoCandidateError, changes neither the
\* registered candidates nor their layering; of the dispatcher it changes
\* the resolution cache only, and there only the part of its own arity.
C30_CallChangesCacheOnly ==
    [][(last'.op \in {"get", "__call__"}) =>
          /\ cands' = cands
          /\ topsets' = topsets
          /\ gt' = gt
          /\ lt' = lt
          /\ \A k \in Arities :
                 /\ AllLayers(S1, k) = AllLayers(S0, k)
                 /\ k # Len(last'.types) => cache'[k] = cache[k]]_vars

\* a call over a registry of two layers or more has raised AmbiguityError
\* and has left its CachedSearch in the cache
C30_Witness ==
    /\ IsCall
    /\ last.out.kind = "AmbiguityError"
    /\ Len(AllLayers(S0, Len(last.types))) >= 2
    /\ last.types \in DOMAIN cache[Len(last.types)].ent
    /\ cache[Len(last.types)].ent[last.types].sorted # <<>>

----------------------------------------------------------------------------
(* A TieredTopologicalSet used as the MutableSet it is: add, remove,       *)
(* discard, clear, len and iteration.  The set is the one of arity 1; a    *)
(* node that is removed stays in the arena, out of reach of the root.      *)

\* _iter_nodes: the nodes that can be reached from the root
RECURSIVE IterNodesFrom(_, _, _)
IterNodesFrom(S, n, seen) ==
    LET more == UNION {Range(NodeGt(S, n, p)) : p \in seen \cup {0}}
    IN  IF more \subseteq seen THEN seen
        ELSE IterNodesFrom(S, n, seen \cup more)

_iter_nodes(S, n) == IterNodesFrom(S, n, {})

\* the loops of remove for the node found
Unlink(S, n, node) ==
    LET prio == [i \in DOMAIN S.cands |-> S.cands[i].priority]
        parents == S.lt[node]
        children == S.gt[node]
        NewGt(p) == SortedAddAll(RemoveAll(NodeGt(S, n, p), {node}), children, prio)
    IN  [S EXCEPT
            !.topsets = [S.topsets EXCEPT ![n].rootgt = IF 0 \in parents THEN NewGt(0) ELSE @,
                                          ![n].len = @ - 1],
            !.gt = [i \in DOMAIN S.gt |-> IF i \in parents THEN NewGt(i) ELSE S.gt[i]],
            !.lt = [i \in DOMAIN S.lt |->
                       IF i \in Range(children) THEN (S.lt[i] \ {node}) \cup parents
                       ELSE S.lt[i]]]

\* TopologicalSet.remove(x): ok = FALSE stands for the KeyError
TopologicalSetRemove(S, n, x) ==
    LET found == {k \in _iter_nodes(S, n) : S.cands[k] = x}
    IN  IF found = {} THEN {[ok |-> FALSE, S |-> S]}
        ELSE {[ok |-> TRUE, S |-> Unlink(S, n, node)] : node \in found}

\* TopologicalSet.discard(x)
TopologicalSetDiscard(S, n, x) ==
    {[ok |-> TRUE, S |-> r.S] : r \in TopologicalSetRemove(S, n, x)}

\* TopologicalSet.clear()
TopologicalSetClear(S, n) ==
    [S EXCEPT !.topsets = [S.topsets EXCEPT ![n].rootgt = <<>>, ![n].len = 0]]

\* len(set): __len__ returns _len, and len() raises for a negative value
TopologicalSetLen(S, n) ==
    IF S.topsets[n].len < 0 THEN "ValueError" ELSE S.topsets[n].len

\* the elements added and removed, and one that is never added
SetPool ==
    [cands |-> <<Cand(K1("A"), 0, NotImplemented), Cand(K1("B"), 0, NotImplemented),
                Cand(K1("O"), 0, NotImplemented)>>,
     absent |-> Cand(K1("C"), 0, NotImplemented)]

SetElements == Range(SetPool.cands) \cup {SetPool.absent}

\* the topset slot that holds the set
SetArity == Arity(SetPool.absent)

InitSet ==
    /\ pool = "Set"
    /\ cands = <<>>
    /\ topsets = [n \in Arities |-> [exists |-> n = SetArity, rootgt |-> <<>>, len |-> 0]]
    /\ gt = <<>>
    /\ lt = <<>>
    /\ cache = [n \in Arities |-> NoCache]
    /\ last = [op |-> "init", batch |-> <<>>, types |-> <<>>, ok |-> TRUE,
               out |-> NoOutcome]
    /\ m = NoMatchRun
    /\ registered = {}
    /\ pcs = NoReport
    /\ iters = <<>>
    /\ trie = NoTrie
    /\ ctrl = <<>>

\* set.add(x)
SetAdd(x) ==
    /\ Len(cands) < MaxCands
    /\ \E r \in TopologicalSetAdd(S0, SetArity, x) :
          /\ Install(r.S)
          /\ last' = [op |-> "add", batch |-> <<x>>, types |-> <<>>, ok |-> r.ok,
                      out |-> NoOutcome]
    /\ UNCHANGED <<pool, m, registered, pcs, iters, trie, ctrl>>

\* set.remove(x)
SetRemove(x) ==
    /\ \E r \in TopologicalSetRemove(S0, SetArity, x) :
          /\ Install(r.S)
          /\ last' = [op |-> "remove", batch |-> <<x>>, types |-> <<>>, ok |-> r.ok,
                      out |-> NoOutcome]
    /\ UNCHANGED <<pool, m, registered, pcs, iters, trie, ctrl>>

\* set.discard(x)
SetDiscard(x) ==
    /\ \E r \in TopologicalSetDiscard(S0, SetArity, x) :
          /\ Install(r.S)
          /\ last' = [op |-> "discard", batch |-> <<x>>, types |-> <<>>, ok |-> r.ok,
                      out |-> NoOutcome]
    /\ UNCHANGED <<pool, m, registered, pcs, iters, trie, ctrl>>

\* set.clear()
SetClear ==
    /\ topsets[SetArity].rootgt # <<>> \/ topsets[SetArity].len # 0
    /\ Install(TopologicalSetClear(S0, SetArity))
    /\ last' = [op |-> "clear", batch |-> <<>>, types |-> <<>>, ok |-> TRUE,
                out |-> NoOutcome]
    /\ UNCHANGED <<pool, m, registered, pcs, iters, trie, ctrl>>

NextSet ==
    \/ \E x \in Range(SetPool.cands) : SetAdd(x)
    \/ \E x \in SetElements : SetRemove(x)
    \/ \E x \in SetElements : SetDiscard(x)
    \/ SetClear

SpecSet == InitSet /\ [][NextSet]_vars

\* a complete run of layers() over the set
SetRun(S) == TopologicalSetIter(S, SetArity, NewLayers)

\* the index of the layer that emits node k, 0 when no layer does
SetLayerOf(S, k) ==
    LET L == AllLayers(S, SetArity)
    IN  IF \E i \in DOMAIN L : k \in Range(L[i])
        THEN CHOOSE i \in DOMAIN L : k \in Range(L[i])
        ELSE 0

\* the number of times a run emits node k
Emitted(S, k) == Cardinality({i \in DOMAIN SetRun(S).items : SetRun(S).items[i] = k})

\* C31: remove(x) of a present element leaves x out of the set, every other
\* element emitted exactly once by layers(), every remaining pair a < b that
\* was emitted in order still emitted with a in a strictly earlier layer than
\* b, and layers() ending without an assertion failure; remove of an absent
\* element raises KeyError and changes nothing.
C31_RemoveKeepsLayering ==
    [][(last'.op = "remove") =>
          LET x == last'.batch[1]
              before == _iter_nodes(S0, SetArity)
              rest == {k \in before : cands[k] # x}
          IN  IF last'.ok
              THEN /\ x \in {cands[k] : k \in before}
                   /\ SetRun(S1).kind = "stop"
                   /\ \A k \in DOMAIN cands' : Emitted(S1, k) > 0 => cands'[k] # x
                   /\ \A k \in rest : Emitted(S1, k) = 1
                   /\ \A a, b \in rest :
                          (/\ CandLt(cands[a], cands[b])
                           /\ SetLayerOf(S0, a) > 0
                           /\ SetLayerOf(S0, a) < SetLayerOf(S0, b)) =>
                              /\ SetLayerOf(S1, a) > 0
                              /\ SetLayerOf(S1, a) < SetLayerOf(S1, b)
              ELSE /\ x \notin {cands[k] : k \in before}
                   /\ S1 = S0]_vars

\* C32: after any sequence of add, remove, discard and clear, len(set) is the
\* number of elements that iterating the set yields.
C32_LenCountsElements ==
    TopologicalSetLen(S0, SetArity) = Len(SetRun(S0).items)

----------------------------------------------------------------------------
(* Trie and RankedChildrenTrie.  A node is named by the path of sub-keys   *)
(* that leads to it from the root; a children mapping is the list of its   *)
(* keys in insertion order, with the special_keys set when it is a         *)
(* RankedChildren.  Values are strings, _blank the marker of no value.     *)

_blank == "_blank"
_no_default == "_no_default"

\* the attributes each class body assigns; a class also has those of its base
ClassAttrs(cls) ==
    CASE cls = "TrieNode" -> [children_factory |-> "dict"]
      [] cls = "Trie" -> [node_factory |-> "TrieNode"]
      [] cls = "RankedChildrenTrie" ->
             [node_factory |-> "TrieNode", children_factory |-> "RankedChildren"]

\* is_key_special(t): t is not a class whose metaclass keeps type's
\* __subclasscheck__; P is the abstract base class of the hierarchy
is_key_special(t) == t = "P"

\* RankedChildren() and dict()
children_factory(kind) ==
    IF kind = "RankedChildren"
    THEN [kind |-> "RankedChildren", keys |-> <<>>, special_keys |-> {}]
    ELSE [kind |-> "dict", keys |-> <<>>]

\* children[key] = node
ChildrenSetItem(ch, key) ==
    LET keys == IF key \in Range(ch.keys) THEN ch.keys ELSE Append(ch.keys, key)
    IN  IF ch.kind = "RankedChildren"
        THEN [ch EXCEPT !.keys = keys,
                        !.special_keys = IF is_key_special(key) THEN @ \cup {key} ELSE @]
        ELSE [ch EXCEPT !.keys = keys]

\* del children[key]
ChildrenDelItem(ch, key) ==
    IF ch.kind = "RankedChildren"
    THEN [ch EXCEPT !.keys = RemoveAll(@, {key}), !.special_keys = @ \ {key}]
    ELSE [ch EXCEPT !.keys = RemoveAll(@, {key})]

\* self.node_factory(): TrieNode.__init__ calls the children_factory of the
\* node class
node_factory(cls) ==
    [inner_value |-> _blank,
     children |-> children_factory(ClassAttrs(ClassAttrs(cls).node_factory).children_factory)]

\* Trie.__init__
NewTrie(cls) == [cls |-> cls, nodes |-> [p \in {<<>>} |-> node_factory(cls)], len |-> 0]

HasChild(T, path, k) == k \in Range(T.nodes[path].children.keys)

\* _ensure_child(node, sub_key)
_ensure_child(T, path, sub_key) ==
    IF HasChild(T, path, sub_key) THEN T
    ELSE LET child == Append(path, sub_key)
         IN  [T EXCEPT !.nodes =
                 [p \in DOMAIN T.nodes \cup {child} |->
                     IF p = child THEN node_factory(T.cls)
                     ELSE IF p = path
                          THEN [T.nodes[p] EXCEPT !.children = ChildrenSetItem(@, sub_key)]
                          ELSE T.nodes[p]]]

RECURSIVE EnsurePath(_, _, _)
EnsurePath(T, path, rest) ==
    IF rest = <<>> THEN T
    ELSE EnsurePath(_ensure_child(T, path, Head(rest)), Append(path, Head(rest)), Tail(rest))

\* in _set the value is stored although override is false
_setOverriding(T, key, value, override) ==
    LET T1 == EnsurePath(T, <<>>, key)
        current_value == T1.nodes[key].inner_value
        T2 == IF current_value = _blank THEN [T1 EXCEPT !.len = @ + 1] ELSE T1
    IN  [T |-> [T2 EXCEPT !.nodes[key].inner_value = value], ret |-> value]

\* _set(key, value, override)
_set(T, key, value, override) ==
    LET T1 == EnsurePath(T, <<>>, key)
        current_value == T1.nodes[key].inner_value
        T2 == IF current_value = _blank THEN [T1 EXCEPT !.len = @ + 1] ELSE T1
    IN  IF current_value # _blank /\ ~override
        THEN [T |-> T1, ret |-> current_value]
        ELSE [T |-> [T2 EXCEPT !.nodes[key].inner_value = value], ret |-> value]

\* the number of sub-keys of key the loop of get and pop follows
RECURSIVE Follow(_, _, _)
Follow(T, path, rest) ==
    IF rest = <<>> \/ ~HasChild(T, path, Head(rest)) THEN Len(path)
    ELSE Follow(T, Append(path, Head(rest)), Tail(rest))

\* get(key, default)
get(T, key, default) ==
    IF Follow(T, <<>>, key) < Len(key) THEN default
    ELSE IF T.nodes[key].inner_value = _blank THEN default
         ELSE T.nodes[key].inner_value

\* __getitem__(item)
__getitem__(T, item) ==
    LET ret == get(T, item, _blank)
    IN  IF ret = _blank THEN [kind |-> "KeyError", value |-> "None"]
        ELSE [kind |-> "return", value |-> ret]

\* Mapping.__contains__(key)
__contains__(T, key) ==
    [kind |-> "return", value |-> IF __getitem__(T, key).kind = "KeyError" THEN "False" ELSE "True"]

\* the loop over reversed(stack) keeps every node
ClearBranchesNone(T, path, clear_flag, clear_flag_key) == T

\* the loop of pop over reversed(stack), at the entry (k, s) with s the node
\* of path and k its last sub-key
RECURSIVE ClearBranches(_, _, _, _)
ClearBranches(T, path, clear_flag, clear_flag_key) ==
    LET T1 == IF clear_flag
              THEN [T EXCEPT !.nodes =
                       [p \in DOMAIN T.nodes \ {Append(path, clear_flag_key)} |->
                           IF p = path
                           THEN [T.nodes[p] EXCEPT
                                    !.children = ChildrenDelItem(@, clear_flag_key)]
                           ELSE T.nodes[p]]]
              ELSE T
        s == T1.nodes[path]
        flag == s.inner_value = _blank /\ s.children.keys = <<>>
    IN  IF path = <<>> THEN T1
        ELSE ClearBranches(T1, SubSeq(path, 1, Len(path) - 1), flag,
                           IF flag THEN path[Len(path)] ELSE clear_flag_key)

\* pop(key, default)
pop(T, key, default) ==
    LET Miss == IF default = _no_default
                THEN [kind |-> "KeyError", value |-> "None", T |-> T]
                ELSE [kind |-> "return", value |-> default, T |-> T]
    IN  IF Follow(T, <<>>, key) < Len(key) THEN Miss
        ELSE LET ret == T.nodes[key].inner_value
             IN  IF ret = _blank THEN Miss
                 ELSE [kind |-> "return", value |-> ret,
                       T |-> ClearBranches([T EXCEPT !.nodes[key].inner_value = _blank,
                                                     !.len = @ - 1],
                                           key, FALSE, "None")]

\* node.values(buffer), each value with the buffer it is yielded under
RECURSIVE NodeValues(_, _)
NodeValues(T, path) ==
    LET s == T.nodes[path]
    IN  (IF s.inner_value # _blank THEN <<<<path, s.inner_value>>>> ELSE <<>>)
        \o ConcatAll([i \in DOMAIN s.children.keys |->
                         NodeValues(T, Append(path, s.children.keys[i]))])

\* list(trie.items())
items(T) == NodeValues(T, <<>>)

\* the dict operations the trie is run against
DictGet(d, key, default) == IF key \in DOMAIN d THEN d[key] ELSE default

DictSetItem(d, key, value) ==
    [k \in DOMAIN d \cup {key} |-> IF k = key THEN value ELSE d[k]]

DictSetDefault(d, key, default) ==
    IF key \in DOMAIN d THEN [d |-> d, ret |-> d[key]]
    ELSE [d |-> DictSetItem(d, key, default), ret |-> default]

DictGetItem(d, key) ==
    IF key \in DOMAIN d THEN [kind |-> "return", value |-> d[key]]
    ELSE [kind |-> "KeyError", value |-> "None"]

DictContains(d, key) ==
    [kind |-> "return", value |-> IF key \in DOMAIN d THEN "True" ELSE "False"]

DictPop(d, key, default) ==
    IF key \in DOMAIN d
    THEN [kind |-> "return", value |-> d[key], d |-> [k \in DOMAIN d \ {key} |-> d[k]]]
    ELSE IF default = _no_default THEN [kind |-> "KeyError", value |-> "None", d |-> d]
         ELSE [kind |-> "return", value |-> default, d |-> d]

\* the keys, values and defaults of the runs: keys that are prefixes of one
\* another, over a plain class and an abstract one
TriePool ==
    [keys |-> {<<>>, <<"A">>, <<"P">>, <<"A", "P">>},
     values |-> {"v0", "v1"},
     defaults |-> {"None"},
     classes |-> {"Trie", "RankedChildrenTrie"}]

TrieOp(op, key, value, kind, ret) ==
    [op |-> op, batch |-> <<>>, types |-> <<>>, ok |-> kind = "return",
     out |-> [kind |-> kind, value |-> ret, group |-> NoGroup, log |-> <<>>],
     key |-> key, arg |-> value]

InitTrie ==
    /\ pool = "Trie"
    /\ cands = <<>>
    /\ topsets = [n \in Arities |-> [exists |-> FALSE, rootgt |-> <<>>, len |-> 0]]
    /\ gt = <<>>
    /\ lt = <<>>
    /\ cache = [n \in Arities |-> NoCache]
    /\ last = [op |-> "init", batch |-> <<>>, types |-> <<>>, ok |-> TRUE,
               out |-> NoOutcome]
    /\ m = NoMatchRun
    /\ registered = {}
    /\ pcs = NoReport
    /\ iters = <<>>
    /\ \E cls \in TriePool.classes : trie = NewTrie(cls)
    /\ ctrl = <<>>

TrieRest == <<cands, topsets, gt, lt, cache, pool, m, registered, pcs, iters>>

\* trie[key] = value; ctrl[key] = value
TrieSetItem(key, value) ==
    /\ trie' = _set(trie, key, value, TRUE).T
    /\ ctrl' = DictSetItem(ctrl, key, value)
    /\ last' = TrieOp("setitem", key, value, "return", "None")
    /\ UNCHANGED TrieRest

\* trie.setdefault(key, default); ctrl.setdefault(key, default)
TrieSetDefault(key, default) ==
    /\ \E r \in {_set(trie, key, default, FALSE)} :
          /\ trie' = r.T
          /\ last' = TrieOp("setdefault", key, default, "return", r.ret)
    /\ ctrl' = DictSetDefault(ctrl, key, default).d
    /\ UNCHANGED TrieRest

\* trie.pop(key[, default]); ctrl.pop(key[, default])
TriePop(key, default) ==
    /\ \E r \in {pop(trie, key, default)} :
          /\ trie' = r.T
          /\ last' = TrieOp("pop", key, default, r.kind, r.value)
    /\ ctrl' = DictPop(ctrl, key, default).d
    /\ UNCHANGED TrieRest

\* trie.get(key, default)
TrieGet(key, default) ==
    /\ last' = TrieOp("get", key, default, "return", get(trie, key, default))
    /\ UNCHANGED <<trie, ctrl>>
    /\ UNCHANGED TrieRest

\* trie[key]
TrieGetItem(key) ==
    /\ \E r \in {__getitem__(trie, key)} :
          last' = TrieOp("getitem", key, "None", r.kind, r.value)
    /\ UNCHANGED <<trie, ctrl>>
    /\ UNCHANGED TrieRest

\* key in trie
TrieContains(key) ==
    /\ \E r \in {__contains__(trie, key)} :
          last' = TrieOp("contains", key, "None", r.kind, r.value)
    /\ UNCHANGED <<trie, ctrl>>
    /\ UNCHANGED TrieRest

NextTrie ==
    \/ \E key \in TriePool.keys, value \in TriePool.values : TrieSetItem(key, value)
    \/ \E key \in TriePool.keys, default \in TriePool.values : TrieSetDefault(key, default)
    \/ \E key \in TriePool.keys, default \in TriePool.defaults \cup {_no_default} :
          TriePop(key, default)
    \/ \E key \in TriePool.keys, default \in TriePool.defaults : TrieGet(key, default)
    \/ \E key \in TriePool.keys : TrieGetItem(key)
    \/ \E key \in TriePool.keys : TrieContains(key)

SpecTrie == InitTrie /\ [][NextTrie]_vars

\* items, length and every lookup of the trie are those of the dict
TrieMatchesDict ==
    /\ {items(trie)[i] : i \in DOMAIN items(trie)} = {<<k, ctrl[k]>> : k \in DOMAIN ctrl}
    /\ Len(items(trie)) = Cardinality(DOMAIN ctrl)
    /\ trie.len = Cardinality(DOMAIN ctrl)
    /\ \A key \in TriePool.keys :
           /\ get(trie, key, "None") = DictGet(ctrl, key, "None")
           /\ __getitem__(trie, key) = DictGetItem(ctrl, key)
           /\ __contains__(trie, key) = DictContains(ctrl, key)

\* what the operation just made returned or raised is what the dict did
TrieOpMatchesDict ==
    LET key == last'.key
        arg == last'.arg
        res == [kind |-> last'.out.kind, value |-> last'.out.value]
        popped == DictPop(ctrl, key, arg)
    IN  CASE last'.op = "setdefault" ->
                 /\ res = [kind |-> "return", value |-> DictSetDefault(ctrl, key, arg).ret]
                 /\ key \in DOMAIN ctrl => get(trie', key, "None") = ctrl[key]
          [] last'.op = "pop" ->
                 /\ res = [kind |-> popped.kind, value |-> popped.value]
                 /\ key \notin DOMAIN ctrl => trie' = trie
          [] last'.op = "get" -> res = [kind |-> "return", value |-> DictGet(ctrl, key, arg)]
          [] last'.op = "getitem" -> res = DictGetItem(ctrl, key)
          [] last'.op = "contains" -> res = DictContains(ctrl, key)
          [] OTHER -> TRUE

\* C33: after any sequence of item assignment, setdefault and pop the items,
\* the length and the results of get, [] and 'in' of a Trie are those of a
\* dict given the same operations: an absent key or a proper prefix of a
\* stored key gives the default or KeyError, setdefault keeps a stored value,
\* and pop of an absent key gives the default or KeyError and changes nothing.
C33_TrieActsAsDict ==
    /\ [](TrieMatchesDict)
    /\ [][TrieOpMatchesDict]_vars

\* a pop without default of a proper prefix of a stored key has raised KeyError
C33_Witness ==
    /\ last.op = "pop"
    /\ last.key = <<"A">>
    /\ last.arg = _no_default
    /\ last.out.kind = "KeyError"
    /\ <<"A", "P">> \in DOMAIN ctrl
    /\ <<>> \in DOMAIN ctrl

\* the nodes of the trie: the paths that can be followed from the root
RECURSIVE NodePaths(_, _)
NodePaths(T, path) ==
    {path} \cup UNION {NodePaths(T, Append(path, k)) : k \in Range(T.nodes[path].children.keys)}

\* the node of path holds a value or has a descendant that holds one
Valued(T, path) == \E q \in NodePaths(T, path) : T.nodes[q].inner_value # _blank

\* C34: after any sequence of insertions and pops every node other than the
\* root holds a value or has a descendant that holds one, the root of an
\* empty trie has no children, and pop removes the nodes of the branches it
\* leaves without a value and no other node.
C34_NoEmptyBranches ==
    /\ [](/\ \A p \in NodePaths(trie, <<>>) \ {<<>>} : Valued(trie, p)
          /\ trie.len = 0 => trie.nodes[<<>>].children.keys = <<>>)
    /\ [][(last'.op = "pop") =>
             NodePaths(trie', <<>>) =
                 {<<>>} \cup {p \in NodePaths(trie, <<>>) :
                                \E q \in NodePaths(trie, p) :
                                    /\ trie.nodes[q].inner_value # _blank
                                    /\ ~(last'.ok /\ q = last'.key)}]_vars

\* a pop has emptied a branch of two nodes under a root that keeps a value
C34_Witness ==
    /\ last.op = "pop"
    /\ last.key = <<"A", "P">>
    /\ last.out.kind = "return"
    /\ last.out.value \in TriePool.values
    /\ DOMAIN ctrl = {<<>>}
    /\ NodePaths(trie, <<>>) = {<<>>}

\* C38: in a RankedChildrenTrie the children mapping of every node is a
\* RankedChildren whose special_keys set is the set of its current keys that
\* are not plain classes, after any sequence of insertions and deletions.
C38_SpecialKeysTracked ==
    (trie.cls = "RankedChildrenTrie") =>
        \A p \in NodePaths(trie, <<>>) :
            LET children == trie.nodes[p].children
            IN  /\ children.kind = "RankedChildren"
                /\ children.special_keys = {k \in Range(children.keys) : is_key_special(k)}

----------------------------------------------------------------------------
(* Candidate.from_func on functions with defaulted parameters *)

\* the number of leading parameters from_func turns into type iterators
RECURSIVE Dispatched(_)
Dispatched(params) ==
    IF params = <<>> \/ Head(params).kind # "positional" \/ Head(params).hint = Missing
    THEN 0
    ELSE 1 + Dispatched(Tail(params))

\* the arities from_func makes candidates for: the full one, and the number
\* of parameters before each defaulted one
FuncArities(params) ==
    {Dispatched(params)}
        \cup {j - 1 : j \in {i \in 1..Dispatched(params) : params[i].default # "empty"}}

\* C35: from_func on a function with defaulted parameters makes candidates
\* of each shorter arity and of the full arity and of no other, and in every
\* arity the candidates hold the whole cross product of the alternatives of
\* the parameters, also of a Union-annotated parameter that has a default.
C35_DefaultArities ==
    (last.op = "add_func" /\ last.ok) =>
        LET params == last.func.params
            made == {last.batch[j].types : j \in DOMAIN last.batch}
        IN  /\ {Len(types) : types \in made} = FuncArities(params)
            /\ \A k \in FuncArities(params) :
                   CrossProduct(SubSeq(params, 1, k)) \subseteq {types \in made : Len(types) = k}

----------------------------------------------------------------------------
(* Candidate.permutations and the priorities it makes.  A priority is      *)
(* <<"int", n>> or <<"SubPriority", original, weight>>, the original a     *)
(* priority again; comparisons are those of the SubPriority methods and of *)
(* the key tuples they compare.                                            *)

MaxPermArity == 3   \* parameters of a candidate that is permuted

Plain(n) == <<"int", n>>

\* SubPriority.make(x, weight)
make(x, weight) == IF weight = 0 THEN x ELSE <<"SubPriority", x, weight>>

\* SubPriority.to_key(x)
to_key(x) == IF x[1] = "SubPriority" THEN <<x[2], x[3]>> ELSE <<x, 0>>

RECURSIVE PrioEq(_, _), PrioGt(_, _), PrioLt(_, _), KeyEq(_, _), KeyGt(_, _), KeyLess(_, _)

\* a == b: int.__eq__, SubPriority.__eq__, or the reflected SubPriority.__eq__
PrioEq(a, b) ==
    IF a[1] = "int" /\ b[1] = "int" THEN a[2] = b[2]
    ELSE IF a[1] = "SubPriority" THEN KeyEq(to_key(a), to_key(b))
         ELSE KeyEq(to_key(b), to_key(a))

\* a > b: int.__gt__, SubPriority.__gt__, or the reflected SubPriority.__lt__
PrioGt(a, b) ==
    IF a[1] = "int" /\ b[1] = "int" THEN a[2] > b[2]
    ELSE IF a[1] = "SubPriority" THEN KeyGt(to_key(a), to_key(b))
         ELSE KeyLess(to_key(b), to_key(a))

\* a < b: int.__lt__, SubPriority.__lt__, or the reflected SubPriority.__gt__
PrioLt(a, b) ==
    IF a[1] = "int" /\ b[1] = "int" THEN a[2] < b[2]
    ELSE IF a[1] = "SubPriority" THEN KeyLess(to_key(a), to_key(b))
         ELSE KeyGt(to_key(b), to_key(a))

\* comparison of the tuples (original, weight): the first elements that are
\* not equal decide
KeyEq(k1, k2) == PrioEq(k1[1], k2[1]) /\ k1[2] = k2[2]

KeyGt(k1, k2) == IF PrioEq(k1[1], k2[1]) THEN k1[2] > k2[2] ELSE PrioGt(k1[1], k2[1])

KeyLess(k1, k2) == IF PrioEq(k1[1], k2[1]) THEN k1[2] < k2[2] ELSE PrioLt(k1[1], k2[1])

\* itertools.permutations of the list xs, in the order it yields them
RECURSIVE Perms(_)
Perms(xs) ==
    IF xs = <<>> THEN <<<<>>>>
    ELSE ConcatAll([i \in DOMAIN xs |->
             LET rest == Perms(SubSeq(xs, 1, i - 1) \o SubSeq(xs, i + 1, Len(xs)))
             IN  [j \in DOMAIN rest |-> <<xs[i]>> \o rest[j]]])

\* the loop of permutations() over the permutations left
RECURSIVE PermLoop(_, _, _, _, _)
PermLoop(self, perms, seen, first, ret) ==
    IF perms = <<>> THEN ret
    ELSE LET perm == Head(perms)
             t == IF first THEN self.types ELSE [i \in DOMAIN perm |-> self.types[perm[i]]]
         IN  IF t \in seen THEN PermLoop(self, Tail(perms), seen, first, ret)
             ELSE PermLoop(self, Tail(perms), seen \cup {t}, FALSE,
                      Append(ret,
                          IF first THEN Cand(t, make(self.priority, 1), self.func)
                          ELSE Cand(t, self.priority,
                                    [perm |-> perm, original |-> self.func])))

\* Candidate.permutations()
permutations(self) ==
    IF self.types = <<>> THEN [exc |-> "ValueError", ret |-> <<>>]
    ELSE [exc |-> "none",
          ret |-> PermLoop(self, Perms([i \in DOMAIN self.types |-> i]), {}, TRUE, <<>>)]

\* the candidates permuted: every type tuple of up to MaxPermArity keys, with
\* plain priorities and with priorities that are SubPriority objects already
RECURSIVE Tuples(_, _)
Tuples(keys, n) ==
    IF n = 0 THEN {<<>>}
    ELSE {<<k>> \o t : k \in keys, t \in Tuples(keys, n - 1)}

PermPool ==
    [keys |-> {ClassKey("A"), ClassKey("B"), TypeVarKey("T")},
     priorities |-> {Plain(0), Plain(1), make(Plain(0), -1), make(Plain(0), 1),
                     make(Plain(1), -2)}]

InitPerm ==
    /\ pool = "Perm"
    /\ cands = <<>>
    /\ topsets = [n \in Arities |-> [exists |-> FALSE, rootgt |-> <<>>, len |-> 0]]
    /\ gt = <<>>
    /\ lt = <<>>
    /\ cache = [n \in Arities |-> NoCache]
    /\ \E n \in 0..MaxPermArity :
          \E types \in Tuples(PermPool.keys, n), priority \in PermPool.priorities :
              last = [op |-> "candidate", batch |-> <<Cand(types, priority, Value("f"))>>,
                      types |-> <<>>, ok |-> TRUE, out |-> NoOutcome]
    /\ m = NoMatchRun
    /\ registered = {}
    /\ pcs = NoReport
    /\ iters = <<>>
    /\ trie = NoTrie
    /\ ctrl = <<>>

\* candidate.permutations()
CandidatePermutations ==
    /\ last.op = "candidate"
    /\ \E r \in {permutations(last.batch[1])} :
          last' = [op |-> "permutations", batch |-> r.ret, types |-> <<>>,
                   ok |-> r.exc = "none", out |-> NoOutcome, self |-> last.batch[1]]
    /\ UNCHANGED <<cands, topsets, gt, lt, cache, pool, m, registered, pcs, iters, trie, ctrl>>

NextPerm == CandidatePermutations

SpecPerm == InitPerm /\ [][NextPerm]_vars

\* C36: permutations() returns one candidate for every distinct permutation
\* of the type tuple and no other, and the candidate in the original order
\* has a strictly higher priority than every permuted one, whether the base
\* priority is plain or a SubPriority already.
C36_OriginalOrderFirst ==
    (last.op = "permutations" /\ last.ok) =>
        LET self == last.self
            ps == Perms([i \in DOMAIN self.types |-> i])
            distinct == {[i \in DOMAIN self.types |-> self.types[ps[j][i]]] : j \in DOMAIN ps}
        IN  /\ {last.batch[j].types : j \in DOMAIN last.batch} = distinct
            /\ Len(last.batch) = Cardinality(distinct)
            /\ \A i, j \in DOMAIN last.batch :
                   (last.batch[i].types = self.types /\ i # j) =>
                       PrioGt(last.batch[i].priority, last.batch[j].priority)

----------------------------------------------------------------------------
(* The candidates the findings of the audit name *)

\* the (position, type) pairs a scan of the constraint tuple of candidate c
\* finds a potential error for
ScanOf(c) ==
    LET found == ErrorItems(get_errors(cands[c].types, NoDict, 0))
    IN  {<<found[j].i, found[j].t>> : j \in DOMAIN found}

\* C37: every potential-error finding of the report names the candidate
\* whose constraint tuple the scan that produced it was made over, and every
\* candidate of every priority group is scanned, the only candidate of a
\* single-candidate group as well, so that the scan never ends in a
\* NameError.
C37_FindingNamesScanned ==
    pcs.made =>
        /\ pcs.exc # "NameError"
        /\ \A k \in DOMAIN pcs.err : k \in ScanOf(pcs.err[k].candidate)

====
